---- MODULE Spec2Model ----
(***************************************************************************)
(* State-machine model of the SUMMA spatial preprocessing pipeline of      *)
(* CONFLUENCE (src/utils/models_utils/summa_utils.py,                      *)
(* class SummaPreProcessor_spatial).                                       *)
(*                                                                         *)
(* A directory is a function from the names of the files it holds to      *)
(* their contents; a single file is a record with an exists field.         *)
(* Real-valued quantities are fixed-point integers:                        *)
(*   weights        in tenths            (10 = 1.0)                        *)
(*   lapse rate     in 1e-4 K/m          (-65 = -0.0065 K/m)               *)
(*   temperatures   in 1e-5 K            (650000 = 6.5 K)                  *)
(* so weight * lapse_rate * elevation difference is exact in 1e-5 K.       *)
(***************************************************************************)
EXTENDS Integers, Sequences, FiniteSets, TLC

----------------------------------------------------------------------------
(* Bounds of the model *)

NHru == 2          \* HRU ids of the catchment are 1..NHru
NFiles == 3        \* forcing files are named 1..NFiles (sorted by name)
NTime == 2         \* timesteps per forcing file
MaxRows == 2       \* rows of the intersection table

Hrus == 1..NHru
Files == 1..NFiles
Times == 1..NTime

\* an absent file
NoFile == [exists |-> FALSE]

\* no zonal statistics computed
NoZonal == [soil |-> <<>>, land |-> <<>>]

\* no method called on its own
NoRet == [fn |-> "none"]

\* no source grid read
NoGrid == [files |-> {}, temp |-> <<>>, elevOk |-> <<>>, overlap |-> <<>>]

\* the directory dir after writing contents to the file named f
WriteFile(dir, f, contents) ==
    [g \in DOMAIN dir \cup {f} |-> IF g = f THEN contents ELSE dir[g]]

----------------------------------------------------------------------------
(* Generic helpers *)

Range(s) == {s[i] : i \in DOMAIN s}

RECURSIVE SumSeq(_)
SumSeq(s) == IF s = <<>> THEN 0 ELSE Head(s) + SumSeq(Tail(s))

SeqsUpTo(S, n) == UNION {[1..k -> S] : k \in 0..n}

Perms(S) == {p \in [1..Cardinality(S) -> S] : Range(p) = S}

LogEntry(lvl, msg, arg) == [level |-> lvl, msg |-> msg, arg |-> arg]

\* the sets of files an external error (unreadable file, full disk) can hit in
\* one pass of a loop: none, one file, or all of them
FailureSets(S) == {{}, S} \cup {{f} : f \in S}

----------------------------------------------------------------------------
(* Inputs of the lapse-rate step *)

Weights == {5, 10}
GridElevs == {500, 1500}

\* S_1_elev_m is an attribute of the HRU polygon: one value per HRU
HruElev(h) == IF h % 2 = 1 THEN 1500 ELSE 500

\* rows of the intersected shapefile / CSV: S_1_<hruId>, weight, S_2_elev_m, S_1_elev_m
TopoRows == [hru : Hrus, weight : Weights, gelev : GridElevs, helev : {500, 1500}]
ValidRows == {r \in TopoRows : r.helev = HruElev(r.hru)}

\* intersection tables of the pipeline runs: every HRU covered by one grid
\* cell, or only HRU 1 covered
PipeTables ==
    {[i \in 1..n |-> [hru |-> i, weight |-> 10, gelev |-> 500, helev |-> HruElev(i)]] :
        n \in {1, NHru}}

\* air temperature of the basin-averaged file f at time t for HRU h
AirTemp0(f, t, h) == 27000000 + 1000000 * h + 100000 * t + 10000 * f

\* a basin-averaged forcing file whose hru dimension is ordered as ids
BasinFile(f, ids) ==
    [hruId |-> ids,
     airtemp |-> [t \in Times |-> [i \in DOMAIN ids |-> AirTemp0(f, t, ids[i])]],
     data_step |-> 0]

----------------------------------------------------------------------------
(* State *)

VARIABLES
    pc,           \* position of the running operation
    cfg,          \* configuration dictionary (the keys the model reads)
    basin,        \* forcing/basin_averaged_data: file name -> contents
    intersect,    \* catchment_intersection/with_forcing table (CSV, or the
                  \* shapefile converted on demand): [exists, rows]
    summaInput,   \* forcing/SUMMA_input: file name -> contents
    ioFailed,     \* files hit by an external error in the last per-file loop
    globRank,     \* directory order of SUMMA_input: glob lists files by rank
    catchment,    \* catchment shapefile: HRU ids in file order
    coldstate,    \* settings/SUMMA/<SETTINGS_SUMMA_COLDSTATE>
    trialparams,  \* settings/SUMMA/<SETTINGS_SUMMA_TRIALPARAMS>
    attributes,   \* settings/SUMMA/<SETTINGS_SUMMA_ATTRIBUTES>
    fileList,     \* settings/SUMMA/<SETTINGS_SUMMA_FORCING_LIST>
    forcingShp,   \* shapefiles/forcing/forcing_<dataset>.shp
    soilShp,      \* catchment_intersection/with_soilgrids shapefile
    landShp,      \* catchment_intersection/with_landclass shapefile
    demShp,       \* catchment_intersection/with_dem shapefile
    zonal,        \* zonal_stats results of the soil and land class rasters
    grid,         \* the source grid: its forcing files, cell values, DEM coverage,
                  \* overlap with HRUs
    calls,        \* the nc_remapper calls made so far, in order
    ret,          \* outcome of the last call of a method checked on its own:
                  \* what it returned or raised
    log           \* logger output, in order

vars == <<pc, cfg, basin, intersect, summaInput, ioFailed, globRank, catchment,
          coldstate, trialparams, attributes, fileList, forcingShp,
          soilShp, landShp, demShp, zonal, grid, calls, ret, log>>

\* the input files of the attribute step and the source grid
gisFiles == <<soilShp, landShp, demShp, zonal, grid>>

\* what run_preprocessing never changes: those inputs, the record of the
\* EASYMORE calls and the return value of a method called on its own
gisVars == <<gisFiles, calls, ret>>

----------------------------------------------------------------------------
(* apply_datastep_and_lapse_rate *)

RECURSIVE SortedSeq(_)
SortedSeq(S) ==
    IF S = {} THEN <<>>
    ELSE LET m == CHOOSE x \in S : \A y \in S : x <= y
         IN <<m>> \o SortedSeq(S \ {m})

LapseRowValueSwapped(r, rate) == r.weight * rate * (r.helev - r.gelev)

\* topo_data['lapse_values'] = weight * lapse_rate * (forcing_elev - catchment_elev)
LapseRowValue(r, rate) == r.weight * rate * (r.gelev - r.helev)

RECURSIVE GroupSum(_, _, _)
GroupSum(table, h, rate) ==
    IF table = <<>> THEN 0
    ELSE (IF Head(table).hru = h THEN LapseRowValue(Head(table), rate) ELSE 0)
         + GroupSum(Tail(table), h, rate)

\* topo_data.groupby(hru_id).lapse_values.sum(), indexed by hru id: only the
\* HRUs that have a row in the table are keys of the result
LapseValues(table, rate) ==
    [h \in {table[i].hru : i \in DOMAIN table} |-> GroupSum(table, h, rate)]

\* lapse_values['lapse_values'].loc[dat['hruId'].values]: a label that is not
\* in the index raises KeyError
LocRaises(lapse, dat) == \E i \in DOMAIN dat.hruId : dat.hruId[i] \notin DOMAIN lapse

\* the sorted lapse values taken by position, without the .loc lookup
AddThisByPosition(lapse, dat) ==
    [t \in DOMAIN dat.airtemp |->
        [i \in DOMAIN dat.hruId |->
            IF i <= Cardinality(DOMAIN lapse) THEN lapse[SortedSeq(DOMAIN lapse)[i]] ELSE 0]]

\* np.tile(lapse_values_sorted.values, (len(time), 1)), dims (time, hru)
AddThis(lapse, dat) ==
    [t \in DOMAIN dat.airtemp |-> [i \in DOMAIN dat.hruId |-> lapse[dat.hruId[i]]]]

\* body of the per-file try block, for a file that opens and writes normally
CorrectedFile(dat, lapse, c) ==
    [hruId |-> dat.hruId,
     airtemp |-> IF c.APPLY_LAPSE_RATE
                 THEN [t \in DOMAIN dat.airtemp |->
                          [i \in DOMAIN dat.hruId |->
                              dat.airtemp[t][i] + AddThis(lapse, dat)[t][i]]]
                 ELSE dat.airtemp,
     data_step |-> c.FORCING_TIME_STEP_SIZE]

\* does the try block of file f raise?  failing: files hit by an external error
FileRaises(f, dir, lapse, failing) == f \in failing \/ LocRaises(lapse, dir[f])

\* forcing_files = [f for f in os.listdir(forcing_basin_path) ...]; .sort()
ListForcingFiles(dir) == SortedSeq(DOMAIN dir)

\* a loop without the try block: the first file that raises ends it
RECURSIVE LapseLoopOutUncaught(_, _, _, _, _, _)
LapseLoopOutUncaught(fs, dir, out, lapse, c, failing) ==
    IF fs = <<>> \/ FileRaises(Head(fs), dir, lapse, failing) THEN out
    ELSE LapseLoopOutUncaught(Tail(fs), dir,
                              WriteFile(out, Head(fs), CorrectedFile(dir[Head(fs)], lapse, c)),
                              lapse, c, failing)

\* a loop that opens the output file when there is one, not the source file
RECURSIVE LapseLoopOutInPlace(_, _, _, _, _, _)
LapseLoopOutInPlace(fs, dir, out, lapse, c, failing) ==
    IF fs = <<>> THEN out
    ELSE LET f == Head(fs)
             dat == IF f \in DOMAIN out THEN out[f] ELSE dir[f]
             out1 == IF FileRaises(f, dir, lapse, failing) THEN out
                     ELSE WriteFile(out, f, CorrectedFile(dat, lapse, c))
         IN LapseLoopOutInPlace(Tail(fs), dir, out1, lapse, c, failing)

\* what the loop leaves in SUMMA_input: a file that raises writes nothing
RECURSIVE LapseLoopOut(_, _, _, _, _, _)
LapseLoopOut(fs, dir, out, lapse, c, failing) ==
    IF fs = <<>> THEN out
    ELSE LET f == Head(fs)
             out1 == IF FileRaises(f, dir, lapse, failing) THEN out
                     ELSE WriteFile(out, f, CorrectedFile(dir[f], lapse, c))
         IN LapseLoopOut(Tail(fs), dir, out1, lapse, c, failing)

\* what the loop logs: one info per file, one warning per file that raised
RECURSIVE LapseLoopLog(_, _, _, _)
LapseLoopLog(fs, dir, lapse, failing) ==
    IF fs = <<>> THEN <<>>
    ELSE LET f == Head(fs)
         IN <<LogEntry("info", "Processing", f)>>
            \o (IF FileRaises(f, dir, lapse, failing)
                THEN <<LogEntry("warning", "Issue with file", f)>> ELSE <<>>)
            \o LapseLoopLog(Tail(fs), dir, lapse, failing)

\* the whole method; raises FileNotFoundError when the intersection is absent
LapseRaises == ~intersect.exists

LapseLog(failing) ==
    IF LapseRaises
    THEN <<LogEntry("info", "Starting to apply temperature lapse rate", 0)>>
    ELSE <<LogEntry("info", "Starting to apply temperature lapse rate", 0)>>
         \o LapseLoopLog(ListForcingFiles(basin), basin,
                         LapseValues(intersect.rows, cfg.LAPSE_RATE), failing)
         \o <<LogEntry("info", "Completed processing of forcing files", 0)>>

ApplyDatastepAndLapseRate(failing) ==
    /\ ~LapseRaises
    /\ summaInput' = LapseLoopOut(ListForcingFiles(basin), basin, summaInput,
                                  LapseValues(intersect.rows, cfg.LAPSE_RATE),
                                  cfg, failing)
    /\ ioFailed' = failing
    /\ UNCHANGED <<basin, intersect>>

----------------------------------------------------------------------------
(* run_preprocessing: pc names the call that runs next *)

Datasets == {"RDRS", "ERA5", "CARRA"}

\* the except clause of run_preprocessing: log the error and re-raise
Abort(entries) ==
    /\ pc' = "aborted"
    /\ log' = log \o entries
                  \o <<LogEntry("error", "Error during SUMMA spatial preprocessing", 0)>>

RunPreprocessing ==
    /\ pc = "idle"
    /\ pc' = "process_forcing_data"
    /\ log' = log \o <<LogEntry("info", "Starting SUMMA spatial preprocessing", 0)>>
    /\ UNCHANGED <<cfg, basin, intersect, summaInput, ioFailed, globRank, catchment,
                   coldstate, trialparams, attributes, fileList, forcingShp, gisVars>>

\* process_forcing_data: merge_forcings (RDRS) or process_carra (CARRA), then
\* apply_datastep_and_lapse_rate.  rawOk: CARRA raw files exist.
ProcessForcingData ==
    /\ pc = "process_forcing_data"
    /\ \E rawOk \in BOOLEAN, failing \in FailureSets(DOMAIN basin) :
          IF cfg.FORCING_DATASET = "CARRA" /\ ~rawOk
          THEN /\ failing = {}
               /\ Abort(<<LogEntry("info", "Starting forcing data processing", 0),
                          LogEntry("error", "Error during forcing data processing", 0)>>)
               /\ UNCHANGED <<basin, intersect, summaInput, ioFailed>>
          ELSE /\ rawOk
               /\ IF LapseRaises
                  THEN /\ failing = {}
                       /\ Abort(<<LogEntry("info", "Starting forcing data processing", 0)>>
                                \o LapseLog(failing)
                                \o <<LogEntry("error", "Error during forcing data processing", 0)>>)
                       /\ UNCHANGED <<basin, intersect, summaInput, ioFailed>>
                  ELSE /\ ApplyDatastepAndLapseRate(failing)
                       /\ pc' = "copy_base_settings"
                       /\ log' = log
                            \o <<LogEntry("info", "Starting forcing data processing", 0)>>
                            \o LapseLog(failing)
                            \o <<LogEntry("info", "Forcing data processing completed successfully", 0)>>
    /\ UNCHANGED <<cfg, globRank, catchment, coldstate, trialparams, attributes,
                   fileList, forcingShp, gisVars>>

\* copy_base_settings: raises when the base settings directory cannot be copied
CopyBaseSettings ==
    /\ pc = "copy_base_settings"
    /\ \E ok \in BOOLEAN :
          IF ok
          THEN /\ pc' = "create_file_manager"
               /\ log' = log \o <<LogEntry("info", "SUMMA base settings copied", 0)>>
          ELSE Abort(<<LogEntry("error", "Error copying base settings", 0)>>)
    /\ UNCHANGED <<cfg, basin, intersect, summaInput, ioFailed, globRank, catchment,
                   coldstate, trialparams, attributes, fileList, forcingShp, gisVars>>

\* create_file_manager: raises ValueError on a missing EXPERIMENT_ID or file
\* manager name, or on an invalid simulation time
CreateFileManager ==
    /\ pc = "create_file_manager"
    /\ \E ok \in BOOLEAN :
          IF ok
          THEN /\ pc' = "create_forcing_file_list"
               /\ log' = log \o <<LogEntry("info", "SUMMA file manager created", 0)>>
          ELSE Abort(<<LogEntry("error", "Configuration error", 0)>>)
    /\ UNCHANGED <<cfg, basin, intersect, summaInput, ioFailed, globRank, catchment,
                   coldstate, trialparams, attributes, fileList, forcingShp, gisVars>>

\* create_forcing_file_list: the sorted names of the files in SUMMA_input
CreateForcingFileList ==
    /\ pc = "create_forcing_file_list"
    /\ IF cfg.FORCING_DATASET \in Datasets
       THEN /\ fileList' = [exists |-> TRUE, names |-> SortedSeq(DOMAIN summaInput)]
            /\ pc' = "create_initial_conditions"
            /\ log' = log \o <<LogEntry("info", "Forcing file list created", 0)>>
       ELSE /\ Abort(<<LogEntry("error", "Unsupported forcing dataset", 0)>>)
            /\ UNCHANGED fileList
    /\ UNCHANGED <<cfg, basin, intersect, summaInput, ioFailed, globRank, catchment,
                   coldstate, trialparams, attributes, forcingShp, gisVars>>

\* list(self.forcing_summa_path.glob('*.nc'))[0]: the first file in directory order
GlobFirst(dir) == CHOOSE f \in DOMAIN dir : \A g \in DOMAIN dir : globRank[f] <= globRank[g]

\* forc['hruId'].values.astype(int) of the template forcing file
ForcingHruIds == summaInput[GlobFirst(summaInput)].hruId

nSoil == 8
nSnow == 0

\* np.full((1, num_hru), value): one value per hru
FillHru(value, num_hru) == [i \in 1..num_hru |-> value]

ColdStateFile(ids) ==
    [exists |-> TRUE,
     hruId |-> ids,
     dt_init |-> FillHru(cfg.FORCING_TIME_STEP_SIZE, Len(ids)),
     nSoil |-> FillHru(nSoil, Len(ids)),
     nSnow |-> FillHru(nSnow, Len(ids))]

\* create_initial_conditions: without a forcing file it logs an error and returns
CreateInitialConditions ==
    /\ pc = "create_initial_conditions"
    /\ pc' = "create_trial_parameters"
    /\ IF DOMAIN summaInput = {}
       THEN /\ log' = log \o <<LogEntry("info", "Creating initial conditions file", 0),
                                LogEntry("error", "No forcing files found in the SUMMA input directory", 0)>>
            /\ UNCHANGED coldstate
       ELSE /\ coldstate' = ColdStateFile(ForcingHruIds)
            /\ log' = log \o <<LogEntry("info", "Creating initial conditions file", 0),
                                LogEntry("info", "Initial conditions file created", 0)>>
    /\ UNCHANGED <<cfg, basin, intersect, summaInput, ioFailed, globRank, catchment,
                   trialparams, attributes, fileList, forcingShp, gisVars>>

\* tp_var[:] = val: a scalar is broadcast over hru, a vector of num_hru values
\* is assigned element by element, any other vector raises
TrialVarRaises(val, num_hru) == Len(val) # 1 /\ Len(val) # num_hru
\* an assignment that broadcasts the first value whatever was configured
TrialVarFirst(val, num_hru) == FillHru(val[1], num_hru)
TrialVar(val, num_hru) == IF Len(val) = 1 THEN FillHru(val[1], num_hru) ELSE val

\* all_tp: SETTINGS_SUMMA_TRIALPARAM_<i> = "name,v1[,v2...]", as name -> values
AllTp == cfg.TRIALPARAMS

TrialParamsFile(ids) ==
    [exists |-> TRUE,
     hruId |-> ids,
     params |-> [n \in DOMAIN AllTp |-> TrialVar(AllTp[n], Len(ids))]]

\* create_trial_parameters: without a forcing file it logs an error and returns
CreateTrialParameters ==
    /\ pc = "create_trial_parameters"
    /\ IF DOMAIN summaInput = {}
       THEN /\ pc' = "create_attributes_file"
            /\ log' = log \o <<LogEntry("info", "Creating trial parameters file", 0),
                                LogEntry("error", "No forcing files found in the SUMMA input directory", 0)>>
            /\ UNCHANGED trialparams
       ELSE IF \E n \in DOMAIN AllTp : TrialVarRaises(AllTp[n], Len(ForcingHruIds))
       THEN \* the file is opened for writing and hruId is filled before the
            \* assignment raises: it is left with hruId and no parameter
            /\ trialparams' = [exists |-> TRUE, hruId |-> ForcingHruIds, params |-> <<>>]
            /\ Abort(<<LogEntry("info", "Creating trial parameters file", 0)>>)
       ELSE /\ trialparams' = TrialParamsFile(ForcingHruIds)
            /\ pc' = "create_attributes_file"
            /\ log' = log \o <<LogEntry("info", "Creating trial parameters file", 0),
                                LogEntry("info", "Trial parameters file created", 0)>>
    /\ UNCHANGED <<cfg, basin, intersect, summaInput, ioFailed, globRank, catchment,
                   coldstate, attributes, fileList, forcingShp, gisVars>>

----------------------------------------------------------------------------
(* create_attributes_file *)

\* CATCHMENT_SHP_GRUID of the HRU polygons: HRUs 1,2 form GRU 1, HRUs 3,4 GRU 2, ...
GruOf(h) == (h + 1) \div 2

CatchmentHrus == {catchment[i].hru : i \in DOMAIN catchment}

\* shp.set_index(hruId).loc[forcing_hruIds]: the rows in the order of the
\* forcing file; an id without a row raises KeyError
ReindexRaises(shp, ids) == \E i \in DOMAIN ids : ids[i] \notin {shp[k].hru : k \in DOMAIN shp}
Reindex(shp, ids) ==
    [i \in DOMAIN ids |-> shp[CHOOSE k \in DOMAIN shp : shp[k].hru = ids[i]]]

\* pd.unique(values): the distinct values in order of first appearance
RECURSIVE Unique(_)
Unique(q) ==
    IF q = <<>> THEN <<>>
    ELSE LET init == Unique(SubSeq(q, 1, Len(q) - 1))
         IN IF q[Len(q)] \in Range(init) THEN init ELSE Append(init, q[Len(q)])

\* the attribute file as the first with-block leaves it: placeholders for the
\* fields that insert_soil_class, insert_land_class and insert_elevation fill
AttributesFile(shp) ==
    [exists |-> TRUE,
     hruId |-> [i \in DOMAIN shp |-> shp[i].hru],
     gruId |-> Unique([i \in DOMAIN shp |-> shp[i].gru]),
     hru2gruId |-> [i \in DOMAIN shp |-> shp[i].gru],
     downHRUindex |-> [i \in DOMAIN shp |-> 0],
     elevation |-> [i \in DOMAIN shp |-> -999],
     soilTypeIndex |-> [i \in DOMAIN shp |-> -999],
     vegTypeIndex |-> [i \in DOMAIN shp |-> -999]]

\* the return of run_preprocessing after its last call
Completed(entries) ==
    /\ pc' = "done"
    /\ log' = log \o entries
                  \o <<LogEntry("info", "SUMMA spatial preprocessing completed successfully", 0)>>

CreateAttributesFile ==
    /\ pc = "create_attributes_file"
    /\ IF DOMAIN summaInput = {}
       THEN \* logs an error and returns before the insert_* calls
            /\ Completed(<<LogEntry("info", "Creating attributes file", 0),
                           LogEntry("error", "No forcing files found in the SUMMA input directory", 0)>>)
            /\ UNCHANGED attributes
       ELSE IF ReindexRaises(catchment, ForcingHruIds)
       THEN /\ Abort(<<LogEntry("info", "Creating attributes file", 0)>>)
            /\ UNCHANGED attributes
       ELSE /\ attributes' = AttributesFile(Reindex(catchment, ForcingHruIds))
            /\ pc' = "insert_soil_class"
            /\ log' = log \o <<LogEntry("info", "Creating attributes file", 0),
                                LogEntry("info", "Attributes file created", 0)>>
    /\ UNCHANGED <<cfg, basin, intersect, summaInput, ioFailed, globRank, catchment,
                   coldstate, trialparams, fileList, forcingShp, gisVars>>

----------------------------------------------------------------------------
(* insert_soil_class *)

\* the rows of an intersection shapefile that shp_mask selects for HRU h
RowsOf(shp, h) == IF h \in DOMAIN shp.rows THEN shp.rows[h] ELSE <<>>

\* np.max and np.argmax (the first index that attains the maximum)
MaxOf(hist) == CHOOSE m \in Range(hist) : \A j \in DOMAIN hist : hist[j] <= m
ArgMaxLast(hist) ==
    CHOOSE j \in DOMAIN hist :
        /\ hist[j] = MaxOf(hist)
        /\ \A k \in DOMAIN hist : k > j => hist[k] < MaxOf(hist)
ArgMax(hist) ==
    CHOOSE j \in DOMAIN hist :
        /\ hist[j] = MaxOf(hist)
        /\ \A k \in DOMAIN hist : k < j => hist[k] < MaxOf(hist)

NumSoilClasses == 13
SoilSentinel == 5

\* tmp_hist: USDA_0 .. USDA_12 of the first selected row, 0 for a column the
\* shapefile does not have, then tmp_hist[0] = -1
SoilHist(shp, h) ==
    [j \in 0..(NumSoilClasses - 1) |->
        IF j = 0 THEN -1
        ELSE IF j \in shp.cols THEN RowsOf(shp, h)[1][j] ELSE 0]

\* .values[0] of an empty selection raises IndexError; with several selected
\* rows the elif compares an array with a scalar and its truth value raises
SoilRaises(shp, h) ==
    \/ RowsOf(shp, h) = <<>>
    \/ Len(RowsOf(shp, h)) > 1 /\ MaxOf(SoilHist(shp, h)) # 0

SoilAllZero(shp, h) == MaxOf(SoilHist(shp, h)) = 0

\* the class without the branch for an all-zero histogram
SoilClassNoSentinel(shp, h) == ArgMax(SoilHist(shp, h))

\* the class written for HRU h (one selected row)
SoilClass(shp, h) ==
    LET hist == SoilHist(shp, h)
        sc == ArgMax(hist)
    IN IF MaxOf(hist) = 0 THEN SoilSentinel
       ELSE IF (IF sc \in shp.cols THEN RowsOf(shp, h)[1][sc] ELSE 0) # hist[sc] THEN -999
       ELSE sc

SoilLog(shp, h) ==
    (IF SoilAllZero(shp, h)
     THEN <<LogEntry("warning", "No valid soil class found, make gravel/sand class", h)>>
     ELSE IF SoilClass(shp, h) = -999
     THEN <<LogEntry("warning", "Index and mode soil class do not match", h)>>
     ELSE <<>>)
    \o <<LogEntry("info", "Replacing soil class", h)>>

\* the loop over the hru dimension of the attribute file, from index idx on;
\* the file is open in r+ mode: what was assigned before a raise stays in it
RECURSIVE SoilLoop(_, _, _)
SoilLoop(att, shp, idx) ==
    IF idx > Len(att.hruId) THEN [att |-> att, raised |-> FALSE, log |-> <<>>]
    ELSE IF SoilRaises(shp, att.hruId[idx]) THEN [att |-> att, raised |-> TRUE, log |-> <<>>]
    ELSE LET h == att.hruId[idx]
             rest == SoilLoop([att EXCEPT !.soilTypeIndex[idx] = SoilClass(shp, h)],
                              shp, idx + 1)
         IN [att |-> rest.att, raised |-> rest.raised, log |-> SoilLog(shp, h) \o rest.log]

\* insert_soil_class(attribute_file); next: the pc value after a normal return
InsertSoilClassCall(next) ==
    IF cfg.DATA_ACQUIRE # "HPC"
    THEN /\ pc' = next
         /\ log' = log \o <<LogEntry("info", "Inserting soil class into attributes file", 0)>>
         /\ UNCHANGED attributes
    ELSE IF ~soilShp.exists
    THEN /\ Abort(<<LogEntry("info", "Inserting soil class into attributes file", 0)>>)
         /\ UNCHANGED attributes
    ELSE LET r == SoilLoop(attributes, soilShp, 1)
         IN /\ attributes' = r.att
            /\ IF r.raised
               THEN Abort(<<LogEntry("info", "Inserting soil class into attributes file", 0)>> \o r.log)
               ELSE /\ pc' = next
                    /\ log' = log \o <<LogEntry("info", "Inserting soil class into attributes file", 0)>>
                                  \o r.log

InsertSoilClass ==
    /\ pc = "insert_soil_class"
    /\ InsertSoilClassCall("insert_land_class")
    /\ UNCHANGED <<cfg, basin, intersect, summaInput, ioFailed, globRank, catchment,
                   coldstate, trialparams, fileList, forcingShp, gisVars>>

----------------------------------------------------------------------------
(* insert_land_class *)

NumLandClasses == 17
WaterClass == 17

\* tmp_hist: IGBP_1 .. IGBP_17 of the first selected row (a 1-based sequence
\* here, so class j is at index j), 0 for a column the shapefile does not have
LandHist(shp, h) ==
    [j \in 1..NumLandClasses |-> IF j \in shp.cols THEN RowsOf(shp, h)[1][j] ELSE 0]

\* tmp_lc = np.argmax(tmp_hist) + 1
LandMajority(shp, h) == ArgMax(LandHist(shp, h))

\* .values[0] of an empty selection raises IndexError; shp['IGBP_<tmp_lc>'] of
\* an absent column raises KeyError; with several selected rows the if compares
\* an array with a scalar and its truth value raises
LandRaises(shp, h) ==
    \/ RowsOf(shp, h) = <<>>
    \/ LandMajority(shp, h) \notin shp.cols
    \/ Len(RowsOf(shp, h)) > 1

\* tmp_hist[0:-1]: the classes below water
NonWater(hist) == [j \in 1..(NumLandClasses - 1) |-> hist[j]]

\* a count of every HRU with a water majority
LandOnlyWaterMajority(shp, h) == LandMajority(shp, h) = WaterClass

\* is this HRU counted in is_water?
LandOnlyWater(shp, h) ==
    /\ LandMajority(shp, h) = WaterClass
    /\ ~\E j \in 1..(NumLandClasses - 1) : LandHist(shp, h)[j] > 0

\* the class without the rule for a water majority
LandClassKeepWater(shp, h) == LandMajority(shp, h)

\* the class written for HRU h (one selected row)
LandClass(shp, h) ==
    LET hist == LandHist(shp, h)
        lc0 == LandMajority(shp, h)
        lc == IF RowsOf(shp, h)[1][lc0] # hist[lc0] THEN -999 ELSE lc0
    IN IF lc = WaterClass /\ (\E j \in 1..(NumLandClasses - 1) : hist[j] > 0)
       THEN ArgMax(NonWater(hist))
       ELSE lc

RECURSIVE LandLoop(_, _, _)
LandLoop(att, shp, idx) ==
    IF idx > Len(att.hruId)
    THEN [att |-> att, raised |-> FALSE, log |-> <<>>, is_water |-> 0]
    ELSE IF LandRaises(shp, att.hruId[idx])
    THEN [att |-> att, raised |-> TRUE, log |-> <<>>, is_water |-> 0]
    ELSE LET h == att.hruId[idx]
             rest == LandLoop([att EXCEPT !.vegTypeIndex[idx] = LandClass(shp, h)],
                              shp, idx + 1)
         IN [att |-> rest.att, raised |-> rest.raised,
             log |-> <<LogEntry("info", "Replacing land class", h)>> \o rest.log,
             is_water |-> rest.is_water + (IF LandOnlyWater(shp, h) THEN 1 ELSE 0)]

InsertLandClassCall(next) ==
    IF cfg.DATA_ACQUIRE # "HPC"
    THEN /\ pc' = next
         /\ log' = log \o <<LogEntry("info", "Inserting land class into attributes file", 0)>>
         /\ UNCHANGED attributes
    ELSE IF ~landShp.exists
    THEN /\ Abort(<<LogEntry("info", "Inserting land class into attributes file", 0)>>)
         /\ UNCHANGED attributes
    ELSE LET r == LandLoop(attributes, landShp, 1)
         IN /\ attributes' = r.att
            /\ IF r.raised
               THEN Abort(<<LogEntry("info", "Inserting land class into attributes file", 0)>> \o r.log)
               ELSE /\ pc' = next
                    /\ log' = log \o <<LogEntry("info", "Inserting land class into attributes file", 0)>>
                                  \o r.log
                                  \o <<LogEntry("info", "HRUs were identified as containing only open water",
                                                r.is_water)>>

InsertLandClass ==
    /\ pc = "insert_land_class"
    /\ InsertLandClassCall("insert_elevation")
    /\ UNCHANGED <<cfg, basin, intersect, summaInput, ioFailed, globRank, catchment,
                   coldstate, trialparams, fileList, forcingShp, gisVars>>

----------------------------------------------------------------------------
(* insert_elevation and _set_downHRUindex *)

\* sorted(hru_list, key=elevation, reverse=True): a stable sort, so HRUs of
\* equal elevation keep the order in which they were appended
RECURSIVE InsertAsc(_, _)
InsertAsc(sorted, x) ==
    IF sorted = <<>> THEN <<x>>
    ELSE IF Head(sorted).elev <= x.elev THEN <<Head(sorted)>> \o InsertAsc(Tail(sorted), x)
    ELSE <<x>> \o sorted

RECURSIVE InsertDesc(_, _)
InsertDesc(sorted, x) ==
    IF sorted = <<>> THEN <<x>>
    ELSE IF Head(sorted).elev >= x.elev THEN <<Head(sorted)>> \o InsertDesc(Tail(sorted), x)
    ELSE <<x>> \o sorted

RECURSIVE SortDesc(_)
SortDesc(q) == IF q = <<>> THEN <<>>
               ELSE InsertDesc(SortDesc(SubSeq(q, 1, Len(q) - 1)), q[Len(q)])

\* gru_data[gru_id]: (hru_id, elevation) of the HRUs of the GRU that have an
\* elevation record, in the order of the attribute file
GruData(att, shp, g) ==
    LET idxs == SortedSeq({i \in DOMAIN att.hruId :
                              att.hru2gruId[i] = g /\ RowsOf(shp, att.hruId[i]) # <<>>})
    IN [k \in DOMAIN idxs |->
           [hru |-> att.hruId[idxs[k]], elev |-> RowsOf(shp, att.hruId[idxs[k]])[1]]]

\* the downHRUindex _set_downHRUindex assigns to the HRU at index i, which
\* keeps its value when the HRU is in no gru_data list
DownHRUindex(att, shp, i) ==
    LET sorted == SortDesc(GruData(att, shp, att.hru2gruId[i]))
        at == {k \in DOMAIN sorted : sorted[k].hru = att.hruId[i]}
    IN IF at = {} THEN att.downHRUindex[i]
       ELSE LET k == CHOOSE k \in at : TRUE
            IN IF k = Len(sorted) THEN 0 ELSE sorted[k + 1].hru

\* the attribute file after the loop of insert_elevation
WithElevation(att, shp) ==
    [att EXCEPT !.elevation =
        [i \in DOMAIN att.hruId |->
            IF RowsOf(shp, att.hruId[i]) # <<>> THEN RowsOf(shp, att.hruId[i])[1]
            ELSE att.elevation[i]]]

SetDownHRUindex(att, shp) ==
    [att EXCEPT !.downHRUindex = [i \in DOMAIN att.hruId |-> DownHRUindex(att, shp, i)]]

RECURSIVE ElevLog(_, _, _)
ElevLog(att, shp, idx) ==
    IF idx > Len(att.hruId) THEN <<>>
    ELSE (IF RowsOf(shp, att.hruId[idx]) # <<>>
          THEN <<LogEntry("info", "Set elevation", att.hruId[idx])>>
          ELSE <<LogEntry("warning", "No elevation data found", att.hruId[idx])>>)
         \o ElevLog(att, shp, idx + 1)

InsertElevationCall ==
    IF cfg.DATA_ACQUIRE # "HPC"
    THEN /\ Completed(<<LogEntry("info", "Inserting elevation into attributes file", 0)>>)
         /\ UNCHANGED attributes
    ELSE IF ~demShp.exists
    THEN /\ Abort(<<LogEntry("info", "Inserting elevation into attributes file", 0)>>)
         /\ UNCHANGED attributes
    ELSE /\ attributes' = IF cfg.SETTINGS_SUMMA_CONNECT_HRUS = "yes"
                          THEN SetDownHRUindex(WithElevation(attributes, demShp), demShp)
                          ELSE WithElevation(attributes, demShp)
         /\ Completed(<<LogEntry("info", "Inserting elevation into attributes file", 0)>>
                      \o ElevLog(attributes, demShp, 1))

InsertElevation ==
    /\ pc = "insert_elevation"
    /\ InsertElevationCall
    /\ UNCHANGED <<cfg, basin, intersect, summaInput, ioFailed, globRank, catchment,
                   coldstate, trialparams, fileList, forcingShp, gisVars>>

----------------------------------------------------------------------------
(* create_shapefile and remap_forcing, called by the workflow before
   run_preprocessing *)

LogHas(msg) == \E i \in DOMAIN log : log[i].msg = msg

\* create_shapefile: without a grid file it logs an error and returns (RDRS)
\* or raises FileNotFoundError (ERA5, CARRA)
CreateShapefile ==
    /\ pc = "idle"
    /\ ~LogHas("create_shapefile")
    /\ \E gridFile \in BOOLEAN :
          IF gridFile
          THEN /\ forcingShp' = [exists |-> TRUE]
               /\ log' = log \o <<LogEntry("info", "create_shapefile", 0),
                                   LogEntry("info", "shapefile created and saved", 0)>>
          ELSE /\ UNCHANGED forcingShp
               /\ log' = log \o <<LogEntry("info", "create_shapefile", 0)>>
                             \o (IF cfg.FORCING_DATASET = "RDRS"
                                 THEN <<LogEntry("error", "No RDRS monthly file found", 0)>>
                                 ELSE <<>>)
    /\ UNCHANGED <<pc, cfg, basin, intersect, summaInput, ioFailed, globRank, catchment,
                   coldstate, trialparams, attributes, fileList, gisVars>>

\* the HRU order of an EASYMORE output: the order of the target shapefile
\* (esmr.sort_ID = False)
RemappedFile(f) == BasinFile(f, [i \in DOMAIN catchment |-> catchment[i].hru])

\* the intersection EASYMORE computes and _create_one_weighted_forcing_file
\* copies to intersect_path: every HRU of the target shapefile, here covered
\* by one grid cell of elevation 500 m
EasymoreTable ==
    [i \in DOMAIN catchment |->
        [hru |-> catchment[i].hru, weight |-> 10, gelev |-> 500,
         helev |-> HruElev(catchment[i].hru)]]

\* the loop of _create_all_weighted_forcing_files over forcing_files[1:]
RECURSIVE RemapLoopOut(_, _, _)
RemapLoopOut(fs, out, failing) ==
    IF fs = <<>> THEN out
    ELSE RemapLoopOut(Tail(fs),
                      IF Head(fs) \in failing THEN out
                      ELSE WriteFile(out, Head(fs), RemappedFile(Head(fs))),
                      failing)

RECURSIVE RemapLoopLog(_, _)
RemapLoopLog(fs, failing) ==
    IF fs = <<>> THEN <<>>
    ELSE (IF Head(fs) \in failing THEN <<LogEntry("info", "issue with file", Head(fs))>>
          ELSE <<>>)
         \o RemapLoopLog(Tail(fs), failing)

\* esmr.nc_remapper() in _create_one_weighted_forcing_file: remap_csv = '',
\* EASYMORE computes the intersection itself
FirstCall(f) == [file |-> f, remap_csv |-> "", tableThere |-> intersect.exists]

\* esmr.nc_remapper() in _create_all_weighted_forcing_files: remap_csv is the
\* remapping file under intersect_path; there tells whether it exists
LaterCall(f, there) == [file |-> f, remap_csv |-> "persisted", tableThere |-> there]

\* remap_forcing: _create_one_weighted_forcing_file on the first source file
\* (it raises when there is none, when the forcing shapefile is absent or when
\* EASYMORE fails), then _create_all_weighted_forcing_files on the others.
\* source: the .nc files of the merged forcing path; failing: the source files
\* on which nc_remapper raises
RemapForcing ==
    /\ pc = "idle"
    /\ ~LogHas("Starting forcing remapping process")
    /\ \E source \in {Files, {}}, failing \in FailureSets(Files) :
          LET fs == SortedSeq(source)
          IN IF source = {} \/ ~forcingShp.exists \/ 1 \in failing
             THEN /\ failing \in {{}, {1}}
                  /\ failing = {1} => (source # {} /\ forcingShp.exists)
                  /\ log' = log \o <<LogEntry("info", "Starting forcing remapping process", 0)>>
                  /\ calls' = IF source = {} THEN calls
                              ELSE Append(calls, FirstCall(Head(fs)))
                  /\ UNCHANGED <<basin, intersect, ioFailed>>
             ELSE /\ basin' = RemapLoopOut(Tail(fs),
                                           WriteFile(basin, Head(fs), RemappedFile(Head(fs))),
                                           failing)
                  /\ intersect' = [exists |-> TRUE, rows |-> EasymoreTable]
                  /\ ioFailed' = failing
                  /\ calls' = calls \o <<FirstCall(Head(fs))>>
                                    \o [k \in 1..Len(Tail(fs)) |-> LaterCall(Tail(fs)[k], TRUE)]
                  /\ log' = log \o <<LogEntry("info", "Starting forcing remapping process", 0),
                                      LogEntry("info", "One weighted forcing file created", 0)>>
                                \o RemapLoopLog(Tail(fs), failing)
                                \o <<LogEntry("info", "All weighted forcing files created", 0),
                                     LogEntry("info", "Forcing remapping process completed", 0)>>
    /\ UNCHANGED <<pc, cfg, summaInput, globRank, catchment, coldstate, trialparams,
                   attributes, fileList, forcingShp, gisFiles, ret>>

----------------------------------------------------------------------------
(* Initial states and next-state relation of the pipeline *)

Ascending == [i \in 1..NHru |-> i]
Descending == [i \in 1..NHru |-> NHru + 1 - i]
OrderFamily == {Ascending, Descending}

ShpRows(ids) == [i \in DOMAIN ids |-> [hru |-> ids[i], gru |-> GruOf(ids[i])]]

\* catchment shapefiles: all HRUs in either order, or the last HRU missing
Catchments == {ShpRows(Ascending), ShpRows(Descending), ShpRows([i \in 1..(NHru - 1) |-> i])}

\* basin-averaged directories left by earlier remapping runs: empty, or every
\* file present, the first ordered as p and the others as q
BasinDirs ==
    {<<>>} \cup
    {[f \in Files |-> BasinFile(f, IF f = 1 THEN p ELSE q)] : p, q \in OrderFamily}

\* directory orders of SUMMA_input: any file can come first
GlobRanks == {[f \in Files |-> ((f + k) % NFiles) + 1] : k \in 0..(NFiles - 1)}

TrialParamConfigs == {[n \in {"k_soil"} |-> <<5>>], [n \in {"k_soil"} |-> <<5, 7>>]}

AllCfgs ==
    [APPLY_LAPSE_RATE : BOOLEAN,
     LAPSE_RATE : {-65},
     FORCING_TIME_STEP_SIZE : {3600},
     FORCING_DATASET : Datasets,
     DATA_ACQUIRE : {"HPC", "supplied"},
     SETTINGS_SUMMA_CONNECT_HRUS : {"yes", "no"},
     TRIALPARAMS : TrialParamConfigs]

\* configurations of the pipeline runs; SETTINGS_SUMMA_CONNECT_HRUS is read
\* only when DATA_ACQUIRE is HPC
Cfgs ==
    {c \in AllCfgs :
        /\ c.APPLY_LAPSE_RATE
        /\ c.DATA_ACQUIRE # "HPC" => c.SETTINGS_SUMMA_CONNECT_HRUS = "no"
        /\ c.TRIALPARAMS = [n \in {"k_soil"} |-> <<5>>]}

AllCols(n) == 0..n

\* a histogram row with count c at class k and zero elsewhere
OneClassRow(n, k, c) == [j \in AllCols(n) |-> IF j = k THEN c ELSE 0]

\* intersection shapefiles of the pipeline runs, with rows for the HRUs in H
PipeSoil(H) ==
    [exists |-> TRUE, cols |-> AllCols(NumSoilClasses - 1),
     rows |-> [h \in H |-> <<OneClassRow(NumSoilClasses - 1, h + 1, 5)>>]]

PipeLand(H) ==
    [exists |-> TRUE, cols |-> AllCols(NumLandClasses),
     rows |-> [h \in H |-> <<OneClassRow(NumLandClasses, IF h = 1 THEN WaterClass ELSE h, 4)>>]]

PipeDem(H) ==
    [exists |-> TRUE, rows |-> [h \in H |-> <<HruElev(h) + h>>]]

\* every HRU in every shapefile, or the last HRU without soil row and the
\* first without elevation record; the shapefiles are read only when
\* DATA_ACQUIRE is HPC
GisInputs(c) ==
    {[soil |-> PipeSoil(Hrus), land |-> PipeLand(Hrus), dem |-> PipeDem(Hrus)]}
    \cup (IF c.DATA_ACQUIRE = "HPC"
          THEN {[soil |-> PipeSoil(Hrus \ {NHru}), land |-> PipeLand(Hrus),
                 dem |-> PipeDem(Hrus \ {1})]}
          ELSE {})

Init ==
    /\ pc = "idle"
    /\ cfg \in Cfgs
    /\ basin \in BasinDirs
    /\ intersect \in {[exists |-> FALSE, rows |-> <<>>]}
                     \cup {[exists |-> TRUE, rows |-> r] : r \in PipeTables}
    /\ summaInput = <<>>
    /\ ioFailed = {}
    /\ globRank \in GlobRanks
    /\ catchment \in Catchments
    /\ coldstate = NoFile
    /\ trialparams = NoFile
    /\ attributes = NoFile
    /\ fileList = NoFile
    /\ forcingShp = NoFile
    /\ \E g \in GisInputs(cfg) :
          /\ soilShp = g.soil
          /\ landShp = g.land
          /\ demShp = g.dem
    /\ zonal = NoZonal
    /\ grid = NoGrid
    /\ calls = <<>>
    /\ ret = NoRet
    /\ log = <<>>

Next ==
    \/ CreateShapefile
    \/ RemapForcing
    \/ RunPreprocessing
    \/ ProcessForcingData
    \/ CopyBaseSettings
    \/ CreateFileManager
    \/ CreateForcingFileList
    \/ CreateInitialConditions
    \/ CreateTrialParameters
    \/ CreateAttributesFile
    \/ InsertSoilClass
    \/ InsertLandClass
    \/ InsertElevation

Spec == Init /\ [][Next]_vars

----------------------------------------------------------------------------
(* apply_datastep_and_lapse_rate on its own: one basin-averaged file with the
   HRUs in any order, any intersection table of at most MaxRows rows *)

LapseCfgs ==
    {c \in AllCfgs :
        /\ c.FORCING_DATASET = "ERA5"
        /\ c.DATA_ACQUIRE = "supplied"
        /\ c.SETTINGS_SUMMA_CONNECT_HRUS = "no"
        /\ c.TRIALPARAMS = [n \in {"k_soil"} |-> <<5>>]}

InitLapse ==
    /\ pc = "lapse"
    /\ cfg \in LapseCfgs
    /\ basin \in {[f \in {1} |-> BasinFile(1, p)] : p \in Perms(Hrus)}
    /\ intersect \in {[exists |-> FALSE, rows |-> <<>>]}
                     \cup {[exists |-> TRUE, rows |-> r] : r \in SeqsUpTo(ValidRows, MaxRows)}
    /\ summaInput = <<>>
    /\ ioFailed = {}
    /\ globRank = [f \in Files |-> f]
    /\ catchment = ShpRows(Ascending)
    /\ coldstate = NoFile
    /\ trialparams = NoFile
    /\ attributes = NoFile
    /\ fileList = NoFile
    /\ forcingShp = NoFile
    /\ soilShp = PipeSoil(Hrus)
    /\ landShp = PipeLand(Hrus)
    /\ demShp = PipeDem(Hrus)
    /\ zonal = NoZonal
    /\ grid = NoGrid
    /\ calls = <<>>
    /\ ret = NoRet
    /\ log = <<>>

\* a call of apply_datastep_and_lapse_rate that returns
LapseReturns ==
    /\ pc = "lapse"
    /\ \E failing \in FailureSets(DOMAIN basin) :
          /\ ApplyDatastepAndLapseRate(failing)
          /\ log' = log \o LapseLog(failing)
    /\ pc' = "lapse_done"
    /\ UNCHANGED <<cfg, globRank, catchment, coldstate, trialparams, attributes,
                   fileList, forcingShp, gisVars>>

\* a call of apply_datastep_and_lapse_rate that raises FileNotFoundError
LapseFails ==
    /\ pc = "lapse"
    /\ LapseRaises
    /\ pc' = "lapse_raised"
    /\ log' = log \o LapseLog({})
    /\ UNCHANGED <<cfg, basin, intersect, summaInput, ioFailed, globRank, catchment,
                   coldstate, trialparams, attributes, fileList, forcingShp, gisVars>>

\* a second call of apply_datastep_and_lapse_rate on the same directories
LapseAgain ==
    /\ pc = "lapse_done"
    /\ \E failing \in FailureSets(DOMAIN basin) :
          /\ ApplyDatastepAndLapseRate(failing)
          /\ log' = log \o LapseLog(failing)
    /\ pc' = "lapse_twice"
    /\ UNCHANGED <<cfg, globRank, catchment, coldstate, trialparams, attributes,
                   fileList, forcingShp, gisVars>>

NextLapse == LapseReturns \/ LapseFails \/ LapseAgain

SpecLapse == InitLapse /\ [][NextLapse]_vars

----------------------------------------------------------------------------
(* Properties of the lapse-rate step *)

\* the sum of fn[x] over the x in S
RECURSIVE SumOver(_, _)
SumOver(S, fn) ==
    IF S = {} THEN 0
    ELSE LET x == CHOOSE x \in S : TRUE IN fn[x] + SumOver(S \ {x}, fn)

\* the rows of the intersection table that belong to HRU h
TableRowsOf(h) == {k \in DOMAIN intersect.rows : intersect.rows[k].hru = h}

\* sum over the rows of HRU h of weight * lapse_rate * (grid elev - HRU elev)
ExpectedCorrection(h) ==
    SumOver(TableRowsOf(h),
            [k \in DOMAIN intersect.rows |->
                intersect.rows[k].weight * cfg.LAPSE_RATE
                    * (intersect.rows[k].gelev - intersect.rows[k].helev)])

\* what the step added to the air temperature of file f at time t, column i
Added(f, t, i) == summaInput[f].airtemp[t][i] - basin[f].airtemp[t][i]

\* HRU h has exactly one row: weight 1.0, grid at 500 m, HRU at 1500 m
ExampleRow(h) ==
    /\ Cardinality(TableRowsOf(h)) = 1
    /\ \A k \in TableRowsOf(h) :
          /\ intersect.rows[k].weight = 10
          /\ intersect.rows[k].gelev = 500
          /\ intersect.rows[k].helev = 1500

C4_MissingHruZeroCorrection ==
    pc = "lapse_done" =>
        \A f \in DOMAIN basin \ ioFailed :
            (\E i \in DOMAIN basin[f].hruId : TableRowsOf(basin[f].hruId[i]) = {}) =>
                /\ f \in DOMAIN summaInput
                /\ \E k \in DOMAIN log : log[k].level = "warning"
                /\ cfg.APPLY_LAPSE_RATE =>
                      \A i \in DOMAIN basin[f].hruId : \A t \in Times :
                          Added(f, t, i) = ExpectedCorrection(basin[f].hruId[i])

----------------------------------------------------------------------------
(* Properties of run_preprocessing *)

\* the hruId sequences of the forcing files in SUMMA_input
ForcingOrders == {summaInput[f].hruId : f \in DOMAIN summaInput}

TablesWritten == coldstate.exists /\ trialparams.exists /\ attributes.exists

\* C1: after run_preprocessing has written its outputs, the hruId sequences of
\* the attribute, cold-state and trial-parameter files are equal to each other
\* and to the hruId sequence of every forcing file in SUMMA_input.
C1_HruIdAligned ==
    (pc = "done" /\ TablesWritten) =>
        /\ attributes.hruId = coldstate.hruId
        /\ coldstate.hruId = trialparams.hruId
        /\ \A f \in DOMAIN summaInput : summaInput[f].hruId = attributes.hruId

\* C2: a mismatch of hruId between the forcing files is detected before a
\* table is written and aborts the run: while the forcing files disagree no
\* table exists and the run does not complete.
C2_MismatchIsFatal ==
    Cardinality(ForcingOrders) > 1 =>
        /\ ~coldstate.exists
        /\ ~trialparams.exists
        /\ ~attributes.exists
        /\ pc # "done"

\* C5: the stages run in the order polygonization, remapping, lapse
\* correction, attribute assembly, cold-state and trial-parameter writing: the
\* lapse correction does not start before create_shapefile and remap_forcing
\* have completed, and the cold-state and trial-parameter files are written
\* after the attribute file.
C5_StageOrder ==
    /\ LogHas("Starting to apply temperature lapse rate") =>
          /\ LogHas("shapefile created and saved")
          /\ LogHas("Forcing remapping process completed")
    /\ (coldstate.exists \/ trialparams.exists) => attributes.exists

\* C6: when no forcing file exists in SUMMA_input to supply the HRU order,
\* run_preprocessing aborts and never reports successful completion.
C6_MissingTemplateIsFatal ==
    DOMAIN summaInput = {} =>
        /\ pc # "done"
        /\ ~LogHas("SUMMA spatial preprocessing completed successfully")

\* the file was hit by an external error or holds an HRU that is not in the
\* intersection table
LapseFileFails(f) ==
    \/ f \in ioFailed
    \/ \E i \in DOMAIN basin[f].hruId :
          \A k \in DOMAIN intersect.rows : intersect.rows[k].hru # basin[f].hruId[i]

LoggedFor(lvl, msg, f) == \E k \in DOMAIN log : log[k] = LogEntry(lvl, msg, f)

\* C7: in the per-file loops of _create_all_weighted_forcing_files and
\* apply_datastep_and_lapse_rate a failure on one file is caught and logged, no
\* exception leaves the loop, and every later file is still processed: once a
\* loop has started the statement after it is reached, every failing file has
\* its log entry and every other file its output.
C7_PerFileFailuresAreSkipped ==
    /\ (pc = "idle" /\ LogHas("One weighted forcing file created")) =>
          /\ LogHas("All weighted forcing files created")
          /\ \A f \in Files \ {1} :
                IF f \in ioFailed THEN LoggedFor("info", "issue with file", f)
                ELSE f \in DOMAIN basin /\ basin[f] = RemappedFile(f)
    /\ (pc = "copy_base_settings") =>
          /\ LogHas("Completed processing of forcing files")
          /\ \A f \in DOMAIN basin :
                /\ LoggedFor("info", "Processing", f)
                /\ IF LapseFileFails(f) THEN LoggedFor("warning", "Issue with file", f)
                   ELSE f \in DOMAIN summaInput /\ summaInput[f].hruId = basin[f].hruId

\* both loops skipped a file and processed the file after it
C7_Witness ==
    /\ pc = "copy_base_settings"
    /\ LoggedFor("info", "issue with file", NFiles - 1)
    /\ NFiles \in DOMAIN basin /\ basin[NFiles] = RemappedFile(NFiles)
    /\ NFiles - 1 \in ioFailed
    /\ NFiles \in DOMAIN summaInput

\* C8: the attribute, cold-state and trial-parameter files are never
\* observable in a partially written state: once a file exists at its final
\* path, no later step of the run changes its content.
C8_NoPartialFiles ==
    [][/\ attributes.exists => attributes' = attributes
       /\ coldstate.exists => coldstate' = coldstate
       /\ trialparams.exists => trialparams' = trialparams]_vars

----------------------------------------------------------------------------
(* insert_soil_class on its own: the attribute file holds its placeholders,
   the soil intersection shapefile is drawn from a family of histograms *)

SoilCounts == {0, 3, 5}

\* a row with count c0 for USDA_0, counts c[1..4] for USDA_1..USDA_4 and zero
\* for the other columns the shapefile has
SoilRow(cols, c0, c) ==
    [j \in cols |-> IF j = 0 THEN c0 ELSE IF j \in DOMAIN c THEN c[j] ELSE 0]

SoilRowsOfFirst(cols) == {SoilRow(cols, c0, c) : c0 \in {0, 9}, c \in [1..4 -> SoilCounts]}

\* the rows of the other HRUs: none, an all-zero row, a row of class 12, or
\* two rows for the same HRU
SoilRowsOfOthers(cols) ==
    LET zero == SoilRow(cols, 0, <<>>)
        last == [zero EXCEPT ![NumSoilClasses - 1] = 3]
    IN {<<>>, <<zero>>, <<last>>, <<last, zero>>}

\* every USDA column, or USDA_3 missing
SoilColumns == {AllCols(NumSoilClasses - 1), AllCols(NumSoilClasses - 1) \ {3}}

SoilShps ==
    UNION {{[exists |-> TRUE, cols |-> C,
             rows |-> [h \in Hrus |-> IF h = 1 THEN <<r>> ELSE o]] :
                r \in SoilRowsOfFirst(C), o \in SoilRowsOfOthers(C)} : C \in SoilColumns}

SoilCfgs ==
    {c \in AllCfgs :
        /\ c.APPLY_LAPSE_RATE
        /\ c.FORCING_DATASET = "ERA5"
        /\ c.SETTINGS_SUMMA_CONNECT_HRUS = "no"
        /\ c.TRIALPARAMS = [n \in {"k_soil"} |-> <<5>>]}

InitSoil ==
    /\ pc = "soil"
    /\ cfg \in SoilCfgs
    /\ soilShp \in SoilShps
    /\ attributes \in {AttributesFile(ShpRows(p)) : p \in OrderFamily}
    /\ basin = <<>>
    /\ intersect = [exists |-> FALSE, rows |-> <<>>]
    /\ summaInput = <<>>
    /\ ioFailed = {}
    /\ globRank = [f \in Files |-> f]
    /\ catchment = ShpRows(Ascending)
    /\ coldstate = NoFile
    /\ trialparams = NoFile
    /\ fileList = NoFile
    /\ forcingShp = NoFile
    /\ landShp = PipeLand(Hrus)
    /\ demShp = PipeDem(Hrus)
    /\ zonal = NoZonal
    /\ grid = NoGrid
    /\ calls = <<>>
    /\ ret = NoRet
    /\ log = <<>>

\* one call of insert_soil_class(attribute_file)
InsertSoilClassAlone ==
    /\ pc = "soil"
    /\ InsertSoilClassCall("soil_done")
    /\ UNCHANGED <<cfg, basin, intersect, summaInput, ioFailed, globRank, catchment,
                   coldstate, trialparams, fileList, forcingShp, gisVars>>

NextSoil == InsertSoilClassAlone

SpecSoil == InitSoil /\ [][NextSoil]_vars

\* the pixel count of soil class j for HRU h: the USDA_j value of the first
\* row of the HRU, zero for a column the shapefile does not have
SoilCount(h, j) == IF j \in soilShp.cols THEN soilShp.rows[h][1][j] ELSE 0

SoilClasses == 1..(NumSoilClasses - 1)

MaxSoilCount(h) ==
    CHOOSE m \in {SoilCount(h, j) : j \in SoilClasses} : \A j \in SoilClasses : SoilCount(h, j) <= m

SmallestMaxClass(h) ==
    CHOOSE j \in SoilClasses :
        /\ SoilCount(h, j) = MaxSoilCount(h)
        /\ \A k \in SoilClasses : SoilCount(h, k) = MaxSoilCount(h) => j <= k

\* insert_soil_class has assigned the soil class of the HRU at position i
SoilAssigned(i) ==
    /\ pc \in {"soil_done", "aborted"}
    /\ cfg.DATA_ACQUIRE = "HPC"
    /\ LoggedFor("info", "Replacing soil class", attributes.hruId[i])

\* the counts [_, 0, 5, 3, 5] for classes 0..4 and zero for the others
ExampleHist(h) ==
    /\ SoilCount(h, 1) = 0 /\ SoilCount(h, 2) = 5
    /\ SoilCount(h, 3) = 3 /\ SoilCount(h, 4) = 5
    /\ \A j \in SoilClasses : j > 4 => SoilCount(h, j) = 0

\* C9 as stated: for every HRU that insert_soil_class assigns, the
\* soilTypeIndex is the smallest class index in 1..12 whose count equals the
\* maximum count over 1..12, and the counts [_,0,5,3,5] give index 2.
C9_SmallestMaxIndexEveryHru ==
    \A i \in DOMAIN attributes.hruId :
        SoilAssigned(i) =>
            /\ attributes.soilTypeIndex[i] = SmallestMaxClass(attributes.hruId[i])
            /\ ExampleHist(attributes.hruId[i]) => attributes.soilTypeIndex[i] = 2

\* C9 amended: for every HRU that insert_soil_class assigns and that has a
\* nonzero count in some class of 1..12, the soilTypeIndex is the smallest
\* class index in 1..12 whose count equals the maximum count (a missing USDA_j
\* column counting as zero), and the counts [_,0,5,3,5] give index 2; after a
\* return of the call under DATA_ACQUIRE = 'HPC' every HRU is assigned.
C9_SmallestMaxIndexNonzero ==
    /\ (pc = "soil_done" /\ cfg.DATA_ACQUIRE = "HPC") =>
          \A i \in DOMAIN attributes.hruId : SoilAssigned(i)
    /\ \A i \in DOMAIN attributes.hruId :
          (SoilAssigned(i) /\ MaxSoilCount(attributes.hruId[i]) > 0) =>
              /\ attributes.soilTypeIndex[i] = SmallestMaxClass(attributes.hruId[i])
              /\ ExampleHist(attributes.hruId[i]) => attributes.soilTypeIndex[i] = 2

\* the HRU with counts [_,0,5,3,5] was assigned class 2
C9_Witness ==
    /\ pc = "soil_done"
    /\ \E i \in DOMAIN attributes.hruId :
          /\ SoilAssigned(i)
          /\ ExampleHist(attributes.hruId[i])
          /\ attributes.soilTypeIndex[i] = 2

\* C10: an HRU whose counts of the classes 1..12 are all zero is assigned the
\* sentinel soil class 5, and a warning is logged for that HRU.
C10_AllZeroGetsSentinel ==
    \A i \in DOMAIN attributes.hruId :
        (SoilAssigned(i) /\ MaxSoilCount(attributes.hruId[i]) = 0) =>
            /\ attributes.soilTypeIndex[i] = SoilSentinel
            /\ LoggedFor("warning", "No valid soil class found, make gravel/sand class",
                         attributes.hruId[i])

\* an HRU with only class-0 pixels was assigned the sentinel class
C10_Witness ==
    /\ pc = "soil_done"
    /\ \E i \in DOMAIN attributes.hruId :
          /\ SoilAssigned(i)
          /\ SoilCount(attributes.hruId[i], 0) = 9
          /\ MaxSoilCount(attributes.hruId[i]) = 0
          /\ attributes.soilTypeIndex[i] = SoilSentinel

----------------------------------------------------------------------------
(* insert_land_class on its own: the attribute file holds its placeholders,
   the land intersection shapefile is drawn from a family of histograms *)

LandCounts == {0, 2, 4}
WaterCounts == {0, 4, 6}

\* a row with counts c[1..3] for IGBP_1..IGBP_3, w for IGBP_17 and zero for
\* the other columns the shapefile has
LandRow(cols, c, w) ==
    [j \in cols |-> IF j = WaterClass THEN w ELSE IF j \in DOMAIN c THEN c[j] ELSE 0]

LandRowsOfFirst(cols) == {LandRow(cols, c, w) : c \in [1..3 -> LandCounts], w \in WaterCounts}

\* the rows of the other HRUs: none, an all-zero row, a water-only row, or two
\* rows for the same HRU
LandRowsOfOthers(cols) ==
    LET zero == LandRow(cols, <<>>, 0)
        water == LandRow(cols, <<>>, 6)
    IN {<<>>, <<zero>>, <<water>>, <<water, zero>>}

\* every IGBP column, or IGBP_1 missing
LandColumns == {AllCols(NumLandClasses), AllCols(NumLandClasses) \ {1}}

LandShps ==
    UNION {{[exists |-> TRUE, cols |-> C,
             rows |-> [h \in Hrus |-> IF h = 1 THEN <<r>> ELSE o]] :
                r \in LandRowsOfFirst(C), o \in LandRowsOfOthers(C)} : C \in LandColumns}

InitLand ==
    /\ pc = "land"
    /\ cfg \in SoilCfgs
    /\ landShp \in LandShps
    /\ attributes \in {AttributesFile(ShpRows(p)) : p \in OrderFamily}
    /\ basin = <<>>
    /\ intersect = [exists |-> FALSE, rows |-> <<>>]
    /\ summaInput = <<>>
    /\ ioFailed = {}
    /\ globRank = [f \in Files |-> f]
    /\ catchment = ShpRows(Ascending)
    /\ coldstate = NoFile
    /\ trialparams = NoFile
    /\ fileList = NoFile
    /\ forcingShp = NoFile
    /\ soilShp = PipeSoil(Hrus)
    /\ demShp = PipeDem(Hrus)
    /\ zonal = NoZonal
    /\ grid = NoGrid
    /\ calls = <<>>
    /\ ret = NoRet
    /\ log = <<>>

\* one call of insert_land_class(attribute_file)
InsertLandClassAlone ==
    /\ pc = "land"
    /\ InsertLandClassCall("land_done")
    /\ UNCHANGED <<cfg, basin, intersect, summaInput, ioFailed, globRank, catchment,
                   coldstate, trialparams, fileList, forcingShp, gisVars>>

NextLand == InsertLandClassAlone

SpecLand == InitLand /\ [][NextLand]_vars

\* the pixel count of land class j for HRU h: the IGBP_j value of the first
\* row of the HRU, zero for a column the shapefile does not have
LandCount(h, j) == IF j \in landShp.cols THEN landShp.rows[h][1][j] ELSE 0

LandClasses == 1..NumLandClasses
OtherLandClasses == 1..(NumLandClasses - 1)

\* insert_land_class has assigned the land class of the HRU at position i
LandAssigned(i) ==
    /\ pc \in {"land_done", "aborted"}
    /\ cfg.DATA_ACQUIRE = "HPC"
    /\ LoggedFor("info", "Replacing land class", attributes.hruId[i])

\* water has more pixels than every other class
WaterMajority(h) == \A j \in OtherLandClasses : LandCount(h, j) < LandCount(h, WaterClass)

OthersPresent(h) == \E j \in OtherLandClasses : LandCount(h, j) > 0

\* the first class of 1..16 with the highest count among 1..16
FirstMaxOther(h) ==
    CHOOSE j \in OtherLandClasses :
        /\ \A k \in OtherLandClasses : LandCount(h, k) <= LandCount(h, j)
        /\ \A k \in OtherLandClasses : k < j => LandCount(h, k) < LandCount(h, j)

\* the positions of the attribute file whose HRU holds water only
WaterOnlyPositions ==
    {i \in DOMAIN attributes.hruId :
        WaterMajority(attributes.hruId[i]) /\ ~OthersPresent(attributes.hruId[i])}

\* C11: an HRU whose counts of the land classes 1..17 are all zero is assigned
\* a sentinel land class that a warning logged for that HRU announces.
C11_AllZeroLandGetsSentinel ==
    \A i \in DOMAIN attributes.hruId :
        (LandAssigned(i) /\ \A j \in LandClasses : LandCount(attributes.hruId[i], j) = 0) =>
            \E k \in DOMAIN log : log[k].level = "warning" /\ log[k].arg = attributes.hruId[i]

\* C12: when water (class 17) is the majority class of an HRU and some class
\* of 1..16 has a nonzero count, vegTypeIndex is the first class of 1..16 with
\* the highest count; when no other class has a nonzero count the HRU keeps
\* class 17, and the count of water-only HRUs that the call reports is the
\* number of such HRUs.
C12_WaterRule ==
    /\ \A i \in DOMAIN attributes.hruId :
          (LandAssigned(i) /\ WaterMajority(attributes.hruId[i])) =>
              IF OthersPresent(attributes.hruId[i])
              THEN attributes.vegTypeIndex[i] = FirstMaxOther(attributes.hruId[i])
              ELSE attributes.vegTypeIndex[i] = WaterClass
    /\ (pc = "land_done" /\ cfg.DATA_ACQUIRE = "HPC") =>
          /\ \A i \in DOMAIN attributes.hruId : LandAssigned(i)
          /\ LoggedFor("info", "HRUs were identified as containing only open water",
                       Cardinality(WaterOnlyPositions))

\* one HRU with a water majority was given the first of two tied other
\* classes, another kept class 17 and was counted
C12_Witness ==
    /\ pc = "land_done"
    /\ cfg.DATA_ACQUIRE = "HPC"
    /\ \E i, k \in DOMAIN attributes.hruId :
          /\ WaterMajority(attributes.hruId[i])
          /\ LandCount(attributes.hruId[i], 2) = 4 /\ LandCount(attributes.hruId[i], 3) = 4
          /\ LandCount(attributes.hruId[i], 1) < 4
          /\ attributes.vegTypeIndex[i] = 2
          /\ k \in WaterOnlyPositions
          /\ attributes.vegTypeIndex[k] = WaterClass
    /\ LoggedFor("info", "HRUs were identified as containing only open water", 1)

----------------------------------------------------------------------------
(* DataPreProcessor.calculate_soil_stats and calculate_land_stats, followed by
   insert_soil_class and insert_land_class on the shapefiles they write.
   zonal.soil[i] and zonal.land[i] are the dictionaries zonal_stats returns
   for row i of the catchment shapefile: class value -> pixel count, with a
   key only for the classes that have pixels inside the polygon *)

\* the class columns of pd.DataFrame(stats): every key of some dictionary
StatColumns(stats) == UNION {DOMAIN stats[i] : i \in DOMAIN stats}

\* the order of the columns: keys in order of first appearance, the keys of
\* one dictionary ascending
RECURSIVE ColumnOrder(_, _, _)
ColumnOrder(stats, i, acc) ==
    IF i > Len(stats) THEN acc
    ELSE ColumnOrder(stats, i + 1, acc \o SortedSeq(DOMAIN stats[i] \ Range(acc)))

\* result_df[col].sum(): NaN entries are skipped
ColumnSum(stats, c) ==
    SumSeq([i \in DOMAIN stats |-> IF c \in DOMAIN stats[i] THEN stats[i][c] ELSE 0])

\* result_df[columns].sum().idxmax(): the label of the first column with the
\* largest sum
MostCommon(stats) ==
    LET ord == ColumnOrder(stats, 1, <<>>)
        k == CHOOSE k \in DOMAIN ord :
                /\ \A m \in DOMAIN ord : ColumnSum(stats, ord[m]) <= ColumnSum(stats, ord[k])
                /\ \A m \in DOMAIN ord : m < k => ColumnSum(stats, ord[m]) < ColumnSum(stats, ord[k])
    IN ord[k]

\* idxmax of an empty Series raises ValueError
StatsRaises(stats) == StatColumns(stats) = {}

\* result_df.isna().any().any()
HasNaN(stats) == \E i \in DOMAIN stats : DOMAIN stats[i] # StatColumns(stats)

\* a row after fillna: a missing count becomes the label of the most common class
FilledRow(stats, i) ==
    [c \in StatColumns(stats) |->
        IF c \in DOMAIN stats[i] THEN stats[i][c] ELSE MostCommon(stats)]

\* the intersection shapefile: the catchment rows with one column per class
StatsShapefile(stats) ==
    [exists |-> TRUE, cols |-> StatColumns(stats),
     rows |-> [h \in {catchment[i].hru : i \in DOMAIN stats} |->
                  LET i == CHOOSE i \in DOMAIN stats : catchment[i].hru = h
                  IN <<FilledRow(stats, i)>>]]

StatsLog(stats, start, nan, saved) ==
    <<LogEntry("info", start, 0)>>
    \o (IF StatsRaises(stats) THEN <<>>
        ELSE (IF HasNaN(stats) THEN <<LogEntry("warning", nan, 0)>> ELSE <<>>)
             \o <<LogEntry("info", saved, 0)>>)

\* calculate_soil_stats; force: FORCE_RUN_ALL_STEPS
CalculateSoilStats ==
    /\ pc = "soil_stats"
    /\ \E force \in BOOLEAN :
          IF soilShp.exists /\ ~force
          THEN /\ pc' = "land_stats"
               /\ log' = log \o <<LogEntry("info", "Calculating soil statistics", 0)>>
               /\ UNCHANGED soilShp
          ELSE /\ pc' = IF StatsRaises(zonal.soil) THEN "aborted" ELSE "land_stats"
               /\ soilShp' = IF StatsRaises(zonal.soil) THEN soilShp ELSE StatsShapefile(zonal.soil)
               /\ log' = log \o StatsLog(zonal.soil, "Calculating soil statistics",
                                         "NaN values found in soil statistics",
                                         "Soil statistics calculated and saved")
    /\ UNCHANGED <<cfg, basin, intersect, summaInput, ioFailed, globRank, catchment,
                   coldstate, trialparams, attributes, fileList, forcingShp,
                   landShp, demShp, zonal, grid, calls, ret>>

\* calculate_land_stats
CalculateLandStats ==
    /\ pc = "land_stats"
    /\ \E force \in BOOLEAN :
          IF landShp.exists /\ ~force
          THEN /\ pc' = "soil"
               /\ log' = log \o <<LogEntry("info", "Calculating land statistics", 0)>>
               /\ UNCHANGED landShp
          ELSE /\ pc' = IF StatsRaises(zonal.land) THEN "aborted" ELSE "soil"
               /\ landShp' = IF StatsRaises(zonal.land) THEN landShp ELSE StatsShapefile(zonal.land)
               /\ log' = log \o StatsLog(zonal.land, "Calculating land statistics",
                                         "NaN values found in land statistics",
                                         "Land statistics calculated and saved")
    /\ UNCHANGED <<cfg, basin, intersect, summaInput, ioFailed, globRank, catchment,
                   coldstate, trialparams, attributes, fileList, forcingShp,
                   soilShp, demShp, zonal, grid, calls, ret>>

\* insert_land_class after insert_soil_class, as create_attributes_file calls them
InsertLandClassAfterSoil ==
    /\ pc = "soil_done"
    /\ InsertLandClassCall("land_done")
    /\ UNCHANGED <<cfg, basin, intersect, summaInput, ioFailed, globRank, catchment,
                   coldstate, trialparams, fileList, forcingShp, gisVars>>

SoilLabels == {2, 3}
PixelCounts == {1, 4}

\* a dictionary of zonal_stats: counts for any subset of the labels
ZonalDicts(labels) == UNION {[D -> PixelCounts] : D \in SUBSET labels}

\* land polygons: no pixel, water only, or mostly class 2 with some water
LandDicts == {<<>>, [c \in {WaterClass} |-> 4],
              [c \in {2, WaterClass} |-> IF c = 2 THEN 4 ELSE 1]}

StatsCfgs == {c \in SoilCfgs : c.DATA_ACQUIRE = "HPC"}

InitStats ==
    /\ pc = "soil_stats"
    /\ cfg \in StatsCfgs
    /\ zonal \in [soil : [Hrus -> ZonalDicts(SoilLabels)], land : [Hrus -> LandDicts]]
    /\ grid = NoGrid
    /\ calls = <<>>
    /\ ret = NoRet
    /\ soilShp \in {NoFile, PipeSoil(Hrus)}
    /\ landShp = NoFile
    /\ attributes = AttributesFile(ShpRows(Ascending))
    /\ basin = <<>>
    /\ intersect = [exists |-> FALSE, rows |-> <<>>]
    /\ summaInput = <<>>
    /\ ioFailed = {}
    /\ globRank = [f \in Files |-> f]
    /\ catchment = ShpRows(Ascending)
    /\ coldstate = NoFile
    /\ trialparams = NoFile
    /\ fileList = NoFile
    /\ forcingShp = NoFile
    /\ demShp = PipeDem(Hrus)
    /\ log = <<>>

NextStats ==
    \/ CalculateSoilStats
    \/ CalculateLandStats
    \/ InsertSoilClassAlone
    \/ InsertLandClassAfterSoil

SpecStats == InitStats /\ [][NextStats]_vars

\* the number of log entries with this message
CountLogged(msg) == Cardinality({k \in DOMAIN log : log[k].msg = msg})

\* the rows of the catchment whose polygon holds no pixel of the raster
Affected(stats) == {i \in DOMAIN stats : DOMAIN stats[i] = {}}

SoilStatsWritten == LogHas("Soil statistics calculated and saved")
LandStatsWritten == LogHas("Land statistics calculated and saved")

\* C13: for every HRU and every soil or land class without pixels inside that
\* HRU, the count that calculate_soil_stats / calculate_land_stats stored and
\* that insert_soil_class / insert_land_class read (over the 13 soil and 17
\* land entries of the histogram) is 0.
C13_AbsentClassesCountZero ==
    /\ SoilStatsWritten =>
          \A i \in DOMAIN zonal.soil : \A j \in 0..(NumSoilClasses - 1) :
              j \notin DOMAIN zonal.soil[i] => SoilCount(catchment[i].hru, j) = 0
    /\ LandStatsWritten =>
          \A i \in DOMAIN zonal.land : \A j \in LandClasses :
              j \notin DOMAIN zonal.land[i] => LandCount(catchment[i].hru, j) = 0

\* C14: an HRU whose categorical statistic is entirely missing is assigned the
\* domain-wide modal class, and the number of warnings logged by
\* calculate_soil_stats / calculate_land_stats is the number of such HRUs.
C14_SmallHruFallback ==
    /\ SoilStatsWritten =>
          /\ CountLogged("NaN values found in soil statistics") = Cardinality(Affected(zonal.soil))
          /\ \A i \in Affected(zonal.soil) :
                (pc \in {"soil_done", "land_done"}
                   /\ LoggedFor("info", "Replacing soil class", attributes.hruId[i])) =>
                      attributes.soilTypeIndex[i] = MostCommon(zonal.soil)
    /\ LandStatsWritten =>
          /\ CountLogged("NaN values found in land statistics") = Cardinality(Affected(zonal.land))
          /\ \A i \in Affected(zonal.land) :
                (pc = "land_done"
                   /\ LoggedFor("info", "Replacing land class", attributes.hruId[i])) =>
                      attributes.vegTypeIndex[i] = MostCommon(zonal.land)

----------------------------------------------------------------------------
(* insert_elevation on its own: an attribute file of NHru + 1 HRUs in one or
   two GRUs, the elevation shapefile drawn from a family of records *)

ElevHrus == 1..(NHru + 1)
Elevations == {600, 800, 1000}

\* attribute files after the first with-block of create_attributes_file: the
\* HRUs in any order, all in GRU 1 or the last HRU in GRU 2
ElevAttributes ==
    {AttributesFile([i \in ElevHrus |-> [hru |-> p[i], gru |-> IF p[i] > split THEN 2 ELSE 1]]) :
        p \in Perms(ElevHrus), split \in {NHru, NHru + 1}}

\* elevation shapefiles: an elev_mean for any subset of the HRUs
ElevShps ==
    UNION {{[exists |-> TRUE, rows |-> [h \in D |-> <<e[h]>>]] : e \in [D -> Elevations]} :
              D \in SUBSET ElevHrus}

ElevCfgs ==
    {c \in AllCfgs :
        /\ c.APPLY_LAPSE_RATE
        /\ c.FORCING_DATASET = "ERA5"
        /\ c.DATA_ACQUIRE = "HPC"
        /\ c.TRIALPARAMS = [n \in {"k_soil"} |-> <<5>>]}

InitElev ==
    /\ pc = "elev"
    /\ cfg \in ElevCfgs
    /\ attributes \in ElevAttributes
    /\ demShp \in ElevShps
    /\ basin = <<>>
    /\ intersect = [exists |-> FALSE, rows |-> <<>>]
    /\ summaInput = <<>>
    /\ ioFailed = {}
    /\ globRank = [f \in Files |-> f]
    /\ catchment = ShpRows(Ascending)
    /\ coldstate = NoFile
    /\ trialparams = NoFile
    /\ fileList = NoFile
    /\ forcingShp = NoFile
    /\ soilShp = PipeSoil(Hrus)
    /\ landShp = PipeLand(Hrus)
    /\ zonal = NoZonal
    /\ grid = NoGrid
    /\ calls = <<>>
    /\ ret = NoRet
    /\ log = <<>>

\* one call of insert_elevation(attribute_file), the last call of the run
InsertElevationAlone ==
    /\ pc = "elev"
    /\ InsertElevationCall
    /\ UNCHANGED <<cfg, basin, intersect, summaInput, ioFailed, globRank, catchment,
                   coldstate, trialparams, fileList, forcingShp, gisVars>>

NextElev == InsertElevationAlone

SpecElev == InitElev /\ [][NextElev]_vars

Connected == pc = "done" /\ cfg.SETTINGS_SUMMA_CONNECT_HRUS = "yes"

Positions == DOMAIN attributes.hruId

\* the HRU at position i has an elevation record
HasElev(i) == attributes.hruId[i] \in DOMAIN demShp.rows

ElevOf(i) == demShp.rows[attributes.hruId[i]][1]

SameGru(i, k) == attributes.hru2gruId[i] = attributes.hru2gruId[k]

\* the positions the HRU at position i can drain to: another HRU of its GRU
\* with a record, not higher than it, with no HRU of the GRU strictly between
NextLower(i) ==
    {k \in Positions \ {i} :
        /\ SameGru(i, k) /\ HasElev(k)
        /\ ElevOf(k) <= ElevOf(i)
        /\ ~\E m \in Positions : /\ SameGru(i, m) /\ HasElev(m)
                                 /\ ElevOf(k) < ElevOf(m) /\ ElevOf(m) < ElevOf(i)}

\* C15: with connectivity enabled the HRUs of a GRU are ranked by descending
\* elevation: each HRU's downHRUindex is the next-lower HRU of its GRU, the
\* lowest HRU's is 0, no HRU refers to itself, and elevations 1000, 800, 600
\* in one GRU give the chain 1000 -> 800 -> 600 -> 0.
C15_DescendingChain ==
    Connected =>
        \A i \in Positions : HasElev(i) =>
            /\ attributes.downHRUindex[i] # attributes.hruId[i]
            /\ IF attributes.downHRUindex[i] = 0
               THEN ~\E k \in Positions : SameGru(i, k) /\ HasElev(k) /\ ElevOf(k) < ElevOf(i)
               ELSE \E k \in NextLower(i) : attributes.downHRUindex[i] = attributes.hruId[k]
            /\ \A k, m \in Positions :
                  (/\ SameGru(i, k) /\ SameGru(i, m) /\ HasElev(k) /\ HasElev(m)
                   /\ ElevOf(i) = 1000 /\ ElevOf(k) = 800 /\ ElevOf(m) = 600
                   /\ \A n \in Positions \ {i, k, m} : ~(SameGru(i, n) /\ HasElev(n))) =>
                      /\ attributes.downHRUindex[i] = attributes.hruId[k]
                      /\ attributes.downHRUindex[k] = attributes.hruId[m]
                      /\ attributes.downHRUindex[m] = 0

\* a GRU of three HRUs with elevations 1000, 800, 600 was chained
C15_Witness ==
    /\ Connected
    /\ \E i, k, m \in Positions :
          /\ SameGru(i, k) /\ SameGru(i, m) /\ HasElev(i) /\ HasElev(k) /\ HasElev(m)
          /\ ElevOf(i) = 1000 /\ ElevOf(k) = 800 /\ ElevOf(m) = 600
          /\ attributes.downHRUindex[i] = attributes.hruId[k]
          /\ attributes.downHRUindex[k] = attributes.hruId[m]
          /\ attributes.downHRUindex[m] = 0

\* following the links from HRU h reaches 0 within n steps
RECURSIVE ReachesOutlet(_, _)
ReachesOutlet(h, n) ==
    IF h = 0 THEN TRUE
    ELSE IF n = 0 \/ ~\E i \in Positions : attributes.hruId[i] = h THEN FALSE
    ELSE ReachesOutlet(attributes.downHRUindex[CHOOSE i \in Positions : attributes.hruId[i] = h],
                       n - 1)

\* C16: in an attribute file produced with connectivity enabled, each GRU has
\* exactly one HRU with downHRUindex 0, every other HRU points to an HRU of
\* its GRU with lower-or-equal elevation, and following the links from any
\* HRU reaches 0 without revisiting an HRU, also when an HRU has no elevation
\* record or elevations tie.
C16_OneChainPerGru ==
    Connected =>
        \A i \in Positions :
            /\ Cardinality({k \in Positions : SameGru(i, k) /\ attributes.downHRUindex[k] = 0}) = 1
            /\ attributes.downHRUindex[i] # 0 =>
                  \E k \in Positions \ {i} :
                      /\ attributes.hruId[k] = attributes.downHRUindex[i]
                      /\ SameGru(i, k)
                      /\ attributes.elevation[k] <= attributes.elevation[i]
            /\ ReachesOutlet(attributes.hruId[i], Len(attributes.hruId))

----------------------------------------------------------------------------
(* Properties of a repeated lapse-rate step *)

\* C19: a second run of the step over the same source files and the same
\* intersection table leaves every output file as the first run wrote it;
\* the correction and data_step are not applied on top of a corrected file
C19_SecondRunIdempotent ==
    [][(pc = "lapse_done" /\ pc' = "lapse_twice")
          => \A f \in DOMAIN summaInput :
                /\ f \in DOMAIN summaInput'
                /\ summaInput'[f] = summaInput[f]]_vars

\* both runs processed the file without a warning, and the output holds the
\* correction of the example once
C19_Witness ==
    /\ pc = "lapse_twice"
    /\ cfg.APPLY_LAPSE_RATE
    /\ CountLogged("Processing") = 2
    /\ CountLogged("Issue with file") = 0
    /\ \E f \in DOMAIN summaInput :
          /\ summaInput[f].hruId[NHru] = 1
          /\ ExampleRow(1)
          /\ Added(f, NTime, NHru) = 650000
          /\ summaInput[f].data_step = cfg.FORCING_TIME_STEP_SIZE

----------------------------------------------------------------------------
(* create_trial_parameters alone, over scalar and vector overrides *)

\* the values of one SETTINGS_SUMMA_TRIALPARAM_<i> entry after the name: one
\* value, or a vector with fewer, as many or more values than there are HRUs
TrialValues == SeqsUpTo({5, 7}, NHru + 1) \ {<<>>}

TrialCfgs ==
    {[c EXCEPT !.TRIALPARAMS = tp] :
        c \in ElevCfgs, tp \in [{"k_soil", "theta_sat"} -> TrialValues]}

InitTrial ==
    /\ pc = "create_trial_parameters"
    /\ cfg \in TrialCfgs
    /\ summaInput \in {<<>>} \cup {[f \in {1} |-> BasinFile(1, p)] : p \in Perms(Hrus)}
    /\ basin = <<>>
    /\ intersect = [exists |-> FALSE, rows |-> <<>>]
    /\ ioFailed = {}
    /\ globRank = [f \in Files |-> f]
    /\ catchment = ShpRows(Ascending)
    /\ coldstate = NoFile
    /\ trialparams = NoFile
    /\ attributes = NoFile
    /\ fileList = NoFile
    /\ forcingShp = NoFile
    /\ soilShp = PipeSoil(Hrus)
    /\ landShp = PipeLand(Hrus)
    /\ demShp = PipeDem(Hrus)
    /\ zonal = NoZonal
    /\ grid = NoGrid
    /\ calls = <<>>
    /\ ret = NoRet
    /\ log = <<>>

NextTrial == CreateTrialParameters

SpecTrial == InitTrial /\ [][NextTrial]_vars

\* the file holds the variables of all configured overrides
TrialParamsWritten == trialparams.exists /\ DOMAIN trialparams.params = DOMAIN AllTp

----------------------------------------------------------------------------
(* create_shapefile and _create_one_weighted_forcing_file over a source grid
   of three cells; the intersection and the remapping are EASYMORE's *)

GridCells == {1, 2, 3}

\* air temperature of a grid cell at the first timestep, in 1e-5 K
CellTemps == {27800000, 28000000, 28200000}

\* the share of an HRU's area that lies in each grid cell, in tenths
OverlapVectors == {<<5, 3, 2>>, <<10, 0, 0>>, <<0, 5, 5>>, <<2, 3, 5>>}

\* the value of grid cell c at timestep t
CellTemp(c, t) == grid.temp[c] + 100000 * (t - 1)

\* gdf.dropna(subset=['elev_m']): RDRS and ERA5 keep the cells whose zonal
\* mean elevation is not NaN; CARRA keeps every cell
WrittenCells ==
    IF cfg.FORCING_DATASET = "CARRA" THEN GridCells
    ELSE {c \in GridCells : grid.elevOk[c]}

\* create_shapefile with a grid file present
CreateShapefileCells ==
    /\ pc = "shapefile"
    /\ grid.files # {}
    /\ forcingShp' = [exists |-> TRUE, cells |-> WrittenCells]
    /\ log' = log \o <<LogEntry("info", "create_shapefile", 0),
                        LogEntry("info", "shapefile created and saved", 0)>>
    /\ pc' = "remap"
    /\ UNCHANGED <<cfg, basin, intersect, summaInput, ioFailed, globRank, catchment,
                   coldstate, trialparams, attributes, fileList, gisVars>>

\* create_shapefile without a grid file: RDRS logs an error and returns,
\* ERA5 and CARRA raise FileNotFoundError; nothing is written
CreateShapefileNoFile ==
    /\ pc = "shapefile"
    /\ grid.files = {}
    /\ IF cfg.FORCING_DATASET = "RDRS"
       THEN /\ pc' = "shapefile_returned"
            /\ log' = log \o <<LogEntry("info", "create_shapefile", 0),
                                LogEntry("error", "No RDRS monthly file found", 0)>>
       ELSE /\ pc' = "shapefile_raised"
            /\ log' = log \o <<LogEntry("info", "create_shapefile", 0)>>
    /\ UNCHANGED <<cfg, basin, intersect, summaInput, ioFailed, globRank, catchment,
                   coldstate, trialparams, attributes, fileList, forcingShp, gisVars>>

\* one row of the intersected shapefile: AP1 is the area of the intersection
\* over the area of the HRU
CellRow(h, c) ==
    [hru |-> h, cell |-> c, weight |-> grid.overlap[h][c],
     gelev |-> IF grid.elevOk[c] THEN 500 ELSE "nan", helev |-> HruElev(h)]

\* the intersected shapefile: the HRUs in the order of the catchment
\* shapefile, each with the written cells it overlaps
IntersectedRows(cells) ==
    LET n == Cardinality(GridCells)
        all == [k \in 1..(Len(catchment) * n) |->
                   CellRow(catchment[((k - 1) \div n) + 1].hru, ((k - 1) % n) + 1)]
    IN SelectSeq(all, LAMBDA r : r.cell \in cells /\ r.weight > 0)

\* the mean of the cell values, whatever the weights
WeightedValueMean(rows, h, t) ==
    LET S == {k \in DOMAIN rows : rows[k].hru = h}
    IN SumOver(S, [k \in DOMAIN rows |-> CellTemp(rows[k].cell, t)]) \div Cardinality(S)

\* the remapped value of HRU h at timestep t: the sum over its rows of the
\* normalised weight times the cell value
WeightedValue(rows, h, t) ==
    LET S == {k \in DOMAIN rows : rows[k].hru = h}
    IN SumOver(S, [k \in DOMAIN rows |-> rows[k].weight * CellTemp(rows[k].cell, t)])
          \div SumOver(S, [k \in DOMAIN rows |-> rows[k].weight])

\* the remapped file: hru ordered as the target shapefile (sort_ID = False)
WeightedFile(rows) ==
    LET ids == [i \in DOMAIN catchment |-> catchment[i].hru]
    IN [hruId |-> ids,
        airtemp |-> [t \in Times |-> [i \in DOMAIN ids |-> WeightedValue(rows, ids[i], t)]],
        data_step |-> 0]

\* _create_one_weighted_forcing_file: EASYMORE intersects the grid shapefile
\* with the catchment and remaps the first forcing file; the intersected
\* shapefile is copied to intersect_path
CreateOneWeightedForcingFile ==
    /\ pc = "remap"
    /\ grid.files # {}
    /\ forcingShp.exists
    /\ LET rows == IntersectedRows(forcingShp.cells)
           first == Head(SortedSeq(grid.files))
       IN /\ calls' = Append(calls, FirstCall(first))
          /\ intersect' = [exists |-> TRUE, rows |-> rows]
          /\ basin' = WriteFile(basin, first, WeightedFile(rows))
    /\ log' = log \o <<LogEntry("info", "Creating one weighted forcing file", 0),
                        LogEntry("info", "One weighted forcing file created", 0)>>
    /\ pc' = "remap_done"
    /\ UNCHANGED <<cfg, summaInput, ioFailed, globRank, catchment, coldstate,
                   trialparams, attributes, fileList, forcingShp, gisFiles, ret>>

\* grids that cover every HRU; elevOk tells which cells the DEM covers
Grids(fileSets, temps, elevOks) ==
    [files : fileSets, temp : [GridCells -> temps], elevOk : elevOks,
     overlap : [Hrus -> OverlapVectors]]

InitGridCommon ==
    /\ catchment \in {ShpRows(o) : o \in OrderFamily}
    /\ basin = <<>>
    /\ intersect = [exists |-> FALSE, rows |-> <<>>]
    /\ summaInput = <<>>
    /\ ioFailed = {}
    /\ globRank = [f \in Files |-> f]
    /\ coldstate = NoFile
    /\ trialparams = NoFile
    /\ attributes = NoFile
    /\ fileList = NoFile
    /\ soilShp = PipeSoil(Hrus)
    /\ landShp = PipeLand(Hrus)
    /\ demShp = PipeDem(Hrus)
    /\ zonal = NoZonal
    /\ calls = <<>>
    /\ ret = NoRet
    /\ log = <<>>

\* the remapping alone, over a grid shapefile that holds every cell
InitRemap ==
    /\ pc = "remap"
    /\ cfg \in {c \in ElevCfgs : c.SETTINGS_SUMMA_CONNECT_HRUS = "no"}
    /\ grid \in Grids({Files}, CellTemps, {[c \in GridCells |-> TRUE]})
    /\ forcingShp = [exists |-> TRUE, cells |-> GridCells]
    /\ InitGridCommon

NextRemap == CreateOneWeightedForcingFile

SpecRemap == InitRemap /\ [][NextRemap]_vars

\* the value of the HRU at position i of the first remapped file, timestep t
Remapped(t, i) == basin[1].airtemp[t][i]

\* the sum over the grid cells of overlap share times cell value, in tenths
WeightSum(h, t) == SumOver(GridCells, [c \in GridCells |-> grid.overlap[h][c] * CellTemp(c, t)])

\* weights [0.5, 0.3, 0.2] and temperatures [280, 282, 278] K for HRU h
ExampleCells(h) ==
    /\ grid.overlap[h] = <<5, 3, 2>>
    /\ grid.temp = <<28000000, 28200000, 27800000>>

\* C17 as stated: the remapped value is the weight-sum over the intersecting
\* cells, and in the example it is 280.0 K
C17_WeightedSumExample280 ==
    pc = "remap_done"
        => \A i \in DOMAIN basin[1].hruId :
              /\ \A t \in Times :
                    10 * Remapped(t, i) = WeightSum(basin[1].hruId[i], t)
              /\ ExampleCells(basin[1].hruId[i]) => Remapped(1, i) = 28000000

\* C17: the remapped value is the weight-sum over the intersecting cells,
\* and in the example it is 280.2 K
C17_WeightedSumExample ==
    pc = "remap_done"
        => \A i \in DOMAIN basin[1].hruId :
              /\ \A t \in Times :
                    10 * Remapped(t, i) = WeightSum(basin[1].hruId[i], t)
              /\ ExampleCells(basin[1].hruId[i]) => Remapped(1, i) = 28020000

\* the HRU in the last column of the remapped file is in the example situation
C17_Witness ==
    /\ pc = "remap_done"
    /\ ExampleCells(basin[1].hruId[NHru])
    /\ Remapped(1, NHru) = 28020000

----------------------------------------------------------------------------
(* create_shapefile followed by the intersection, over grids whose cells the
   DEM covers or not *)

GridCfgs ==
    {c \in AllCfgs :
        /\ c.APPLY_LAPSE_RATE
        /\ c.DATA_ACQUIRE = "HPC"
        /\ c.SETTINGS_SUMMA_CONNECT_HRUS = "no"
        /\ c.TRIALPARAMS = [n \in {"k_soil"} |-> <<5>>]}

\* every HRU overlaps at least one cell that the DEM covers
InitGrid ==
    /\ pc = "shapefile"
    /\ cfg \in GridCfgs
    /\ grid \in {g \in Grids({{}, Files}, {28000000}, [GridCells -> BOOLEAN]) :
                    \A h \in Hrus : \E c \in GridCells : g.elevOk[c] /\ g.overlap[h][c] > 0}
    /\ forcingShp = NoFile
    /\ InitGridCommon

NextGrid == CreateShapefileCells \/ CreateShapefileNoFile \/ CreateOneWeightedForcingFile

SpecGrid == InitGrid /\ [][NextGrid]_vars

\* the sum of the weights of the rows of HRU h in the intersection table
TableWeight(h) ==
    SumOver(TableRowsOf(h), [k \in DOMAIN intersect.rows |-> intersect.rows[k].weight])

\* C18: for every HRU of the catchment, the weights of its rows in the
\* persisted intersection table sum to 1.0 (10 tenths)
C18_WeightsSumToOne ==
    pc = "remap_done" => \A h \in CatchmentHrus : TableWeight(h) = 10

\* C21: every grid cell of the forcing shapefile written by create_shapefile
\* has a defined mean elevation, whatever the dataset
C21_WrittenCellsHaveElevation ==
    forcingShp.exists => \A c \in forcingShp.cells : grid.elevOk[c]

\* C22: without a grid file create_shapefile raises to its caller and writes
\* no shapefile, whatever the dataset
C22_NoGridFileRaises ==
    (grid.files = {} /\ pc # "shapefile")
        => (pc = "shapefile_raised" /\ ~forcingShp.exists)

----------------------------------------------------------------------------
(* remap_forcing followed call by call *)

\* remap_forcing logs its start and calls _create_one_weighted_forcing_file
RemapForcingStarts ==
    /\ pc = "remap_forcing"
    /\ log' = log \o <<LogEntry("info", "Starting forcing remapping process", 0)>>
    /\ pc' = "remap"
    /\ UNCHANGED <<cfg, basin, intersect, summaInput, ioFailed, globRank, catchment,
                   coldstate, trialparams, attributes, fileList, forcingShp, gisVars>>

\* _create_one_weighted_forcing_file raises: forcing_files[0] of an empty
\* list (no call is made), or nc_remapper fails; remap_forcing ends there
CreateOneWeightedRaises ==
    /\ pc = "remap"
    /\ calls' = IF grid.files = {} THEN calls
                ELSE Append(calls, FirstCall(Head(SortedSeq(grid.files))))
    /\ log' = log \o <<LogEntry("info", "Creating one weighted forcing file", 0)>>
    /\ pc' = "remap_raised"
    /\ UNCHANGED <<cfg, basin, intersect, summaInput, ioFailed, globRank, catchment,
                   coldstate, trialparams, attributes, fileList, forcingShp, gisFiles, ret>>

\* a loop over forcing_files, not forcing_files[1:]
NextSourceAll == SortedSeq(grid.files)[Len(calls)]

\* for file in forcing_files[1:]: the file of the next iteration, after the
\* one call of _create_one_weighted_forcing_file
NextSource == SortedSeq(grid.files)[Len(calls) + 1]

\* one iteration of the loop of _create_all_weighted_forcing_files: the file
\* is remapped with the remapping file under intersect_path; an exception is
\* logged and the loop goes on
RemapNextFile ==
    /\ pc = "remap_done"
    /\ Len(calls) < Cardinality(grid.files)
    /\ \E fails \in BOOLEAN :
          LET f == NextSource
          IN /\ calls' = Append(calls, LaterCall(f, intersect.exists))
             /\ basin' = IF fails THEN basin
                         ELSE WriteFile(basin, f, WeightedFile(intersect.rows))
             /\ ioFailed' = IF fails THEN ioFailed \cup {f} ELSE ioFailed
             /\ log' = log \o (IF fails THEN <<LogEntry("info", "issue with file", f)>>
                               ELSE <<>>)
    /\ UNCHANGED <<pc, cfg, intersect, summaInput, globRank, catchment, coldstate,
                   trialparams, attributes, fileList, forcingShp, gisFiles, ret>>

\* the loop is over: both methods log their end and remap_forcing returns
RemapForcingReturns ==
    /\ pc = "remap_done"
    /\ Len(calls) = Cardinality(grid.files)
    /\ log' = log \o <<LogEntry("info", "All weighted forcing files created", 0),
                        LogEntry("info", "Forcing remapping process completed", 0)>>
    /\ pc' = "remap_returned"
    /\ UNCHANGED <<cfg, basin, intersect, summaInput, ioFailed, globRank, catchment,
                   coldstate, trialparams, attributes, fileList, forcingShp, gisVars>>

InitRemapSeq ==
    /\ pc = "remap_forcing"
    /\ cfg \in GridCfgs
    /\ grid \in Grids({{}, {1}, Files}, {28000000}, {[c \in GridCells |-> TRUE]})
    /\ forcingShp = [exists |-> TRUE, cells |-> GridCells]
    /\ InitGridCommon

NextRemapSeq ==
    \/ RemapForcingStarts
    \/ CreateOneWeightedForcingFile
    \/ CreateOneWeightedRaises
    \/ RemapNextFile
    \/ RemapForcingReturns

SpecRemapSeq == InitRemapSeq /\ [][NextRemapSeq]_vars

\* the files submitted to nc_remapper so far
Submitted == {calls[k].file : k \in DOMAIN calls}

\* C23: the first call computes the intersection and every later call is
\* given the remapping file, which is there when the call is made; the files
\* of the later calls are remapped with the persisted table; no file is
\* submitted twice, and when remap_forcing returns every file was submitted
C23_TableBeforeRemainingFiles ==
    /\ \A k \in DOMAIN calls :
          IF k = 1 THEN calls[k].remap_csv = ""
          ELSE calls[k].remap_csv = "persisted" /\ calls[k].tableThere
    /\ \A j, k \in DOMAIN calls : calls[j].file = calls[k].file => j = k
    /\ \A k \in DOMAIN calls :
          (k > 1 /\ calls[k].file \in DOMAIN basin)
             => /\ intersect.exists
                /\ basin[calls[k].file] = WeightedFile(intersect.rows)
    /\ pc = "remap_returned" => Submitted = grid.files

\* remap_forcing returned after remapping every file of a directory of
\* several files
C23_Witness ==
    /\ pc = "remap_returned"
    /\ Len(calls) = NFiles
    /\ DOMAIN basin = Files
    /\ intersect.exists

----------------------------------------------------------------------------
(* calculate_contour_length and calculate_slope_and_contour, over HRUs that
   are rectangles of whole side lengths *)

\* np.sqrt of an area, exact for the rectangles below
Isqrt(a) == CHOOSE r \in 0..a : r * r <= a /\ (r + 1) * (r + 1) > a

\* hru_geometry.bounds: (width, height) of the bounding box
Rectangles == {<<1, 4>>, <<4, 4>>, <<4, 9>>, <<9, 1>>}

\* downstream_geometry: None, a geometry that does not touch the HRU, or one
\* whose intersection with the HRU has the given length
Downstreams ==
    {[kind |-> "none"], [kind |-> "empty"]}
        \cup {[kind |-> "touching", length |-> l] : l \in {2, 3}}

\* rows of the catchment shapefile with their geometry; slopeOk tells whether
\* zonal_stats finds a mean slope for the polygon
ContourRows(h) ==
    [hru : {h}, gru : {GruOf(h)}, box : Rectangles, down : Downstreams, slopeOk : BOOLEAN]

Area(row) == row.box[1] * row.box[2]

\* min(bounds[2] - bounds[0], bounds[3] - bounds[1])
MinDimension(row) == IF row.box[1] < row.box[2] THEN row.box[1] ELSE row.box[2]

\* calculate_contour_length(hru_dem, hru_geometry, downstream_geometry, ...)
ContourLengthOf(row) ==
    IF row.down.kind = "none" THEN MinDimension(row)
    ELSE IF row.down.kind = "empty" THEN MinDimension(row)
    ELSE row.down.length

\* one entry of the dictionary calculate_slope_and_contour returns; the
\* contour length is that of the entry
SlopeAndContourOf(row) == IF row.slopeOk THEN Isqrt(Area(row)) ELSE 30

\* calculate_contour_length called for every HRU of the shapefile
CalculateContourLength ==
    /\ pc = "contour"
    /\ ret' = [fn |-> "calculate_contour_length",
               value |-> [i \in DOMAIN catchment |-> ContourLengthOf(catchment[i])]]
    /\ log' = log \o [i \in DOMAIN catchment |->
                          IF catchment[i].down.kind = "none"
                          THEN LogEntry("info", "is an outlet. Using minimum dimension", catchment[i].hru)
                          ELSE IF catchment[i].down.kind = "empty"
                          THEN LogEntry("warning", "No intersection found", catchment[i].hru)
                          ELSE LogEntry("info", "Calculated contour length", catchment[i].hru)]
    /\ pc' = "contour_done"
    /\ UNCHANGED <<cfg, basin, intersect, summaInput, ioFailed, globRank, catchment,
                   coldstate, trialparams, attributes, fileList, forcingShp, gisFiles, calls>>

\* calculate_slope_and_contour(shp, dem_path), whose result
\* create_attributes_file writes to contourLength
CalculateSlopeAndContour ==
    /\ pc = "contour"
    /\ ret' = [fn |-> "calculate_slope_and_contour",
               value |-> [i \in DOMAIN catchment |-> SlopeAndContourOf(catchment[i])]]
    /\ log' = log \o <<LogEntry("info", "Calculating slope and contour length for each HRU", 0)>>
                  \o SelectSeq([i \in DOMAIN catchment |->
                                   IF catchment[i].slopeOk THEN LogEntry("none", "", 0)
                                   ELSE LogEntry("warning", "No valid slope data found for HRU",
                                                 catchment[i].hru)],
                               LAMBDA e : e.level = "warning")
    /\ pc' = "contour_done"
    /\ UNCHANGED <<cfg, basin, intersect, summaInput, ioFailed, globRank, catchment,
                   coldstate, trialparams, attributes, fileList, forcingShp, gisFiles, calls>>

InitContour ==
    /\ pc = "contour"
    /\ cfg \in {c \in GridCfgs : c.FORCING_DATASET = "ERA5"}
    /\ catchment \in {r \in [Hrus -> UNION {ContourRows(h) : h \in Hrus}] :
                         \A h \in Hrus : r[h].hru = h}
    /\ grid = NoGrid
    /\ forcingShp = NoFile
    /\ basin = <<>>
    /\ intersect = [exists |-> FALSE, rows |-> <<>>]
    /\ summaInput = <<>>
    /\ ioFailed = {}
    /\ globRank = [f \in Files |-> f]
    /\ coldstate = NoFile
    /\ trialparams = NoFile
    /\ attributes = NoFile
    /\ fileList = NoFile
    /\ soilShp = PipeSoil(Hrus)
    /\ landShp = PipeLand(Hrus)
    /\ demShp = PipeDem(Hrus)
    /\ zonal = NoZonal
    /\ calls = <<>>
    /\ ret = NoRet
    /\ log = <<>>

NextContour == CalculateContourLength \/ CalculateSlopeAndContour

SpecContour == InitContour /\ [][NextContour]_vars

\* C24: the contour length of an HRU is the length of the intersection with
\* its downstream neighbour, sqrt(area) when there is no downstream geometry,
\* and the smaller side of the bounding box when the intersection is empty
C24_ContourLength ==
    pc = "contour_done"
        => \A i \in DOMAIN catchment :
              ret.value[i] = IF catchment[i].down.kind = "none" THEN Isqrt(Area(catchment[i]))
                             ELSE IF catchment[i].down.kind = "empty" THEN MinDimension(catchment[i])
                             ELSE catchment[i].down.length

----------------------------------------------------------------------------
(* DataCleanupProcessor.cleanup_and_checks; fractions in units of 1e-5 *)

\* rows.sort_values(by='COMID').reset_index(drop=True)
RECURSIVE InsertByComid(_, _)
InsertByComid(row, sorted) ==
    IF sorted = <<>> THEN <<row>>
    ELSE IF row.COMID < Head(sorted).COMID THEN <<row>> \o sorted
    ELSE <<Head(sorted)>> \o InsertByComid(row, Tail(sorted))

RECURSIVE SortByComid(_)
SortByComid(rows) ==
    IF rows = <<>> THEN <<>>
    ELSE InsertByComid(rows[Len(rows)], SortByComid(SubSeq(rows, 1, Len(rows) - 1)))

\* a check of the table lengths only
ComidsConsistentLengths(soil, land, elev) ==
    Len(soil) = Len(land) /\ Len(land) = Len(elev)

\* len(soil) == len(land) == len(elev) and the COMID columns equal row by row
ComidsConsistent(soil, land, elev) ==
    /\ Len(soil) = Len(land) /\ Len(land) = Len(elev)
    /\ \A i \in DOMAIN soil : soil[i].COMID = land[i].COMID
    /\ \A i \in DOMAIN land : land[i].COMID = elev[i].COMID

\* soil_type['majority'].replace(0, np.nan).mode(): the most frequent nonzero
\* value, the smallest one first; empty when every value is zero
MajorityCount(soil, v) == Cardinality({i \in DOMAIN soil : soil[i].majority = v})
SoilModes(soil) ==
    {v \in {soil[i].majority : i \in DOMAIN soil} \ {0} :
        \A w \in {soil[i].majority : i \in DOMAIN soil} \ {0} :
           MajorityCount(soil, w) <= MajorityCount(soil, v)}
SoilMode(soil) == CHOOSE v \in SoilModes(soil) : \A w \in SoilModes(soil) : v <= w

CleanSoil(soil) ==
    [i \in DOMAIN soil |->
        [soil[i] EXCEPT !.majority =
            IF cfg.UNIFY_SOIL \/ soil[i].majority = 0 THEN SoilMode(soil)
            ELSE soil[i].majority]]

\* lambda x: 0 if x < min_land_fraction else x
Thresholded(x) == IF x < cfg.MINIMUM_LAND_FRACTION THEN 0 ELSE x

\* row[frac_columns].sum() after the threshold
RowSum(frac) == SumOver(DOMAIN frac, [c \in DOMAIN frac |-> Thresholded(frac[c])])

\* the frac_ values of one row: threshold, division by the row sum when it is
\* positive, zero for the columns up to NUM_LAND_COVER that the table lacks;
\* x / row_sum is x * 1000 / (row_sum / 100) in units of 1e-5 (the row sums
\* are multiples of 100)
CleanFrac(frac) ==
    [c \in DOMAIN frac \cup (1..cfg.NUM_LAND_COVER) |->
        IF c \notin DOMAIN frac THEN 0
        ELSE IF RowSum(frac) > 0 THEN (Thresholded(frac[c]) * 1000) \div (RowSum(frac) \div 100)
        ELSE Thresholded(frac[c])]

\* landcover_type.loc[0, col] < 0.00001 is raised to 0.00001
FlooredFrac(frac) == [c \in DOMAIN frac |-> IF frac[c] < 1 THEN 1 ELSE frac[c]]

CleanLand(land) ==
    [i \in DOMAIN land |->
        [land[i] EXCEPT !.frac =
            IF i = 1 THEN FlooredFrac(CleanFrac(land[i].frac)) ELSE CleanFrac(land[i].frac)]]

\* elevation_mean['mean'].fillna(0); a mean is <<v>>, or <<>> for NaN
CleanElev(elev) ==
    [i \in DOMAIN elev |->
        [elev[i] EXCEPT !.mean = IF elev[i].mean = <<>> THEN <<0>> ELSE elev[i].mean]]

CleanupAndChecks ==
    /\ pc = "cleanup"
    /\ LET soil == SortByComid(zonal.soil)
           land == SortByComid(zonal.land)
           elev == SortByComid(zonal.elev)
       IN IF ~ComidsConsistent(soil, land, elev)
          THEN /\ ret' = [fn |-> "cleanup_and_checks", raised |-> "ValueError"]
               /\ log' = log \o <<LogEntry("info", "Performing cleanup and checks on MAF output", 0)>>
               /\ UNCHANGED zonal
          ELSE IF SoilModes(soil) = {}
          THEN /\ ret' = [fn |-> "cleanup_and_checks", raised |-> "IndexError"]
               /\ log' = log \o <<LogEntry("info", "Performing cleanup and checks on MAF output", 0)>>
               /\ UNCHANGED zonal
          ELSE /\ ret' = [fn |-> "cleanup_and_checks", raised |-> "none"]
               /\ zonal' = [zonal EXCEPT !.modified =
                               [soil |-> [exists |-> TRUE, rows |-> CleanSoil(soil)],
                                land |-> [exists |-> TRUE, rows |-> CleanLand(land)],
                                elev |-> [exists |-> TRUE, rows |-> CleanElev(elev)]]]
               /\ log' = log \o <<LogEntry("info", "Performing cleanup and checks on MAF output", 0),
                                   LogEntry("info", "Cleanup and checks completed", 0)>>
    /\ pc' = "cleanup_done"
    /\ UNCHANGED <<cfg, basin, intersect, summaInput, ioFailed, globRank, catchment,
                   coldstate, trialparams, attributes, fileList, forcingShp,
                   soilShp, landShp, demShp, grid, calls>>

\* the tables the acquisition step left: soil classes, land cover fractions
\* of two classes, mean elevation
SoilTables ==
    {[i \in DOMAIN ids |-> [COMID |-> ids[i], majority |-> maj[i]]] :
        ids \in {<<1, 2>>, <<1, 3>>, <<1>>}, maj \in {<<2, 3>>, <<0, 3>>, <<0, 0>>}}

Fractions == {0, 500, 25000, 75000}

LandTables ==
    {[i \in DOMAIN ids |-> [COMID |-> ids[i], frac |-> fr[i]]] :
        ids \in {<<1, 2>>, <<2, 1>>}, fr \in [{1, 2} -> [{1, 2} -> Fractions]]}

ElevTables ==
    {[i \in DOMAIN ids |-> [COMID |-> ids[i], mean |-> mn[i]]] :
        ids \in {<<1, 2>>, <<2, 2>>}, mn \in {<<<<600>>, <<800>>>>, <<<<>>, <<800>>>>}}

\* modified_* files of an earlier run
OldModified ==
    [soil |-> [exists |-> TRUE, rows |-> <<>>],
     land |-> [exists |-> TRUE, rows |-> <<>>],
     elev |-> [exists |-> TRUE, rows |-> <<>>]]

NoModified == [soil |-> NoFile, land |-> NoFile, elev |-> NoFile]

InitCleanup ==
    /\ pc = "cleanup"
    /\ cfg \in [MINIMUM_LAND_FRACTION : {1000}, NUM_LAND_COVER : {3}, UNIFY_SOIL : BOOLEAN]
    /\ zonal \in [soil : SoilTables, land : LandTables, elev : ElevTables,
                   modified : {NoModified, OldModified}]
    /\ catchment = ShpRows(Ascending)
    /\ grid = NoGrid
    /\ forcingShp = NoFile
    /\ basin = <<>>
    /\ intersect = [exists |-> FALSE, rows |-> <<>>]
    /\ summaInput = <<>>
    /\ ioFailed = {}
    /\ globRank = [f \in Files |-> f]
    /\ coldstate = NoFile
    /\ trialparams = NoFile
    /\ attributes = NoFile
    /\ fileList = NoFile
    /\ soilShp = PipeSoil(Hrus)
    /\ landShp = PipeLand(Hrus)
    /\ demShp = PipeDem(Hrus)
    /\ calls = <<>>
    /\ ret = NoRet
    /\ log = <<>>

NextCleanup == CleanupAndChecks

SpecCleanup == InitCleanup /\ [][NextCleanup]_vars

\* the row of the input land cover table with this COMID
LandInput(comid) ==
    LET i == CHOOSE i \in DOMAIN zonal.land : zonal.land[i].COMID = comid
    IN zonal.land[i].frac

\* C25: in every row of the written land-cover table, a frac_ value that was
\* below MINIMUM_LAND_FRACTION is 0, and the frac_ values of a row with a
\* positive remaining sum add up to 1
C25_ThresholdedAndRenormalized ==
    (pc = "cleanup_done" /\ ret.raised = "none")
        => \A i \in DOMAIN zonal.modified.land.rows :
              LET out == zonal.modified.land.rows[i].frac
                  inp == LandInput(zonal.modified.land.rows[i].COMID)
              IN /\ \A c \in DOMAIN inp :
                       inp[c] < cfg.MINIMUM_LAND_FRACTION => out[c] = 0
                 /\ (\E c \in DOMAIN inp : inp[c] >= cfg.MINIMUM_LAND_FRACTION)
                       => SumOver(DOMAIN out, out) = 100000

\* the COMID column of a table after sorting
SortedComids(rows) == [i \in DOMAIN rows |-> SortByComid(rows)[i].COMID]

\* the three COMID columns differ in length or in a value
ComidsDiffer ==
    \/ SortedComids(zonal.soil) # SortedComids(zonal.land)
    \/ SortedComids(zonal.land) # SortedComids(zonal.elev)

\* C30: when the sorted COMID columns of the three tables differ in length
\* or in a value, cleanup_and_checks raises ValueError and leaves the three
\* modified_* files as they were
C30_InconsistentComidsRaise ==
    [][(pc = "cleanup" /\ ComidsDiffer)
          => (ret'.raised = "ValueError" /\ zonal'.modified = zonal.modified)]_vars

\* the call raised on tables of equal length whose COMIDs differ in a value,
\* with modified_* files of an earlier run in place
C30_Witness ==
    /\ pc = "cleanup_done"
    /\ ret.raised = "ValueError"
    /\ Len(zonal.soil) = Len(zonal.land) /\ Len(zonal.land) = Len(zonal.elev)
    /\ SortedComids(zonal.soil) # SortedComids(zonal.land)
    /\ zonal.modified = OldModified

----------------------------------------------------------------------------
(* _get_simulation_times; a string is the sequence of its fields between
   '-' characters, None is the empty sequence *)

DefaultTime == <<"default">>

TimeValues ==
    {DefaultTime,
     <<"2010", "01", "01 00:00">>,
     <<"2011", "12", "31 23:00">>,
     <<"1999", "06", "15 12:30">>,
     <<"2010", "13", "01 00:00">>,
     <<"2010/01/01 00:00">>,
     <<"">>,
     <<>>}

\* datetime.strptime(s, "%Y-%m-%d %H:%M") accepts s
ValidTime(s) ==
    /\ Len(s) = 3
    /\ s[1] \in {"1999", "2010", "2011"}
    /\ s[2] \in {"01", "06", "12"}
    /\ s[3] \in {"01 00:00", "01 01:00", "15 12:30", "31 22:00", "31 23:00"}

\* the outcome of the method on the configured pair
SimulationTimes(start, end) ==
    LET fn == "_get_simulation_times"
    IN IF start = DefaultTime \/ end = DefaultTime
       THEN IF start = <<>> \/ end = <<>>
            THEN [fn |-> fn, raised |-> "AttributeError", value |-> <<>>]
            ELSE IF Head(start) = "" \/ Head(end) = ""
            THEN [fn |-> fn, raised |-> "ValueError", value |-> <<>>]
            ELSE LET s == IF start = DefaultTime THEN <<Head(start), "01", "01 01:00">> ELSE start
                     e == IF end = DefaultTime THEN <<Head(end), "12", "31 22:00">> ELSE end
                 IN IF ValidTime(s) /\ ValidTime(e)
                    THEN [fn |-> fn, raised |-> "none", value |-> <<s, e>>]
                    ELSE [fn |-> fn, raised |-> "ValueError", value |-> <<>>]
       ELSE IF start = <<>> \/ (ValidTime(start) /\ end = <<>>)
       THEN [fn |-> fn, raised |-> "TypeError", value |-> <<>>]
       ELSE IF ValidTime(start) /\ ValidTime(end)
       THEN [fn |-> fn, raised |-> "none", value |-> <<start, end>>]
       ELSE [fn |-> fn, raised |-> "ValueError", value |-> <<>>]

GetSimulationTimes ==
    /\ pc = "times"
    /\ ret' = SimulationTimes(cfg.EXPERIMENT_TIME_START, cfg.EXPERIMENT_TIME_END)
    /\ pc' = "times_done"
    /\ UNCHANGED <<cfg, basin, intersect, summaInput, ioFailed, globRank, catchment,
                   coldstate, trialparams, attributes, fileList, forcingShp, gisFiles,
                   calls, log>>

InitTimes ==
    /\ pc = "times"
    /\ cfg \in [EXPERIMENT_TIME_START : TimeValues, EXPERIMENT_TIME_END : TimeValues]
    /\ catchment = ShpRows(Ascending)
    /\ grid = NoGrid
    /\ forcingShp = NoFile
    /\ basin = <<>>
    /\ intersect = [exists |-> FALSE, rows |-> <<>>]
    /\ summaInput = <<>>
    /\ ioFailed = {}
    /\ globRank = [f \in Files |-> f]
    /\ coldstate = NoFile
    /\ trialparams = NoFile
    /\ attributes = NoFile
    /\ fileList = NoFile
    /\ soilShp = PipeSoil(Hrus)
    /\ landShp = PipeLand(Hrus)
    /\ demShp = PipeDem(Hrus)
    /\ zonal = NoZonal
    /\ calls = <<>>
    /\ ret = NoRet
    /\ log = <<>>

NextTimes == GetSimulationTimes

SpecTimes == InitTimes /\ [][NextTimes]_vars

\* a configured value that is 'default' or a well-formed time
DefaultOrValid(s) == s = DefaultTime \/ ValidTime(s)

\* C26: when the start or the end time is 'default' (the other being
\* 'default' or well-formed), the method returns two times in
\* 'YYYY-MM-DD HH:MM' format without raising
C26_DefaultTimesReturned ==
    (/\ pc = "times_done"
     /\ cfg.EXPERIMENT_TIME_START = DefaultTime \/ cfg.EXPERIMENT_TIME_END = DefaultTime
     /\ DefaultOrValid(cfg.EXPERIMENT_TIME_START)
     /\ DefaultOrValid(cfg.EXPERIMENT_TIME_END))
        => /\ ret.raised = "none"
           /\ ValidTime(ret.value[1])
           /\ ValidTime(ret.value[2])

----------------------------------------------------------------------------
(* Alignment of the lapse corrections with the HRU ids of the forcing file *)

\* C27: whatever the order of hruId in a forcing file and of the rows in the
\* intersection table, the correction added to column i of airtemp in a
\* written file is the one of the HRU whose id is hruId[i], and the output
\* file keeps the hruId order of the input file
C27_AlignedByHruId ==
    (pc = "lapse_done" /\ cfg.APPLY_LAPSE_RATE) =>
        \A f \in DOMAIN summaInput :
            /\ summaInput[f].hruId = basin[f].hruId
            /\ \A i \in DOMAIN basin[f].hruId :
                  \A t \in Times :
                      Added(f, t, i) = GroupSum(intersect.rows, basin[f].hruId[i], cfg.LAPSE_RATE)

\* a written file lists the HRUs in descending order, the table lists them in
\* another order than the file, and the two HRUs get different corrections
C27_Witness ==
    /\ pc = "lapse_done"
    /\ cfg.APPLY_LAPSE_RATE
    /\ \E f \in DOMAIN summaInput :
          /\ summaInput[f].hruId = Descending
          /\ Len(intersect.rows) = NHru
          /\ \A k \in DOMAIN intersect.rows : intersect.rows[k].hru = k
          /\ Added(f, 1, 1) # Added(f, 1, NHru)

----------------------------------------------------------------------------
(* Water-only HRUs of insert_land_class *)

\* HRU h has exactly one row in the land intersection table, with no
\* negative count
OneNonNegativeRow(h) ==
    /\ h \in DOMAIN landShp.rows
    /\ Len(landShp.rows[h]) = 1
    /\ \A j \in LandClasses : LandCount(h, j) >= 0

\* the positions of the attribute file that hold land class 17
WaterPositions == {i \in DOMAIN attributes.hruId : attributes.vegTypeIndex[i] = WaterClass}

\* C28: after insert_land_class, an HRU with exactly one row of non-negative
\* counts has vegTypeIndex 17 if and only if its count of class 17 is
\* positive and its counts of the classes 1..16 are all zero; the reported
\* number of water-only HRUs is the number of HRUs whose vegTypeIndex is 17
C28_WaterIffOnlyWater ==
    (pc = "land_done" /\ cfg.DATA_ACQUIRE = "HPC") =>
        /\ \A i \in DOMAIN attributes.hruId :
              OneNonNegativeRow(attributes.hruId[i]) =>
                  (attributes.vegTypeIndex[i] = WaterClass
                      <=> /\ LandCount(attributes.hruId[i], WaterClass) > 0
                          /\ \A j \in OtherLandClasses : LandCount(attributes.hruId[i], j) = 0)
        /\ LoggedFor("info", "HRUs were identified as containing only open water",
                     Cardinality(WaterPositions))

\* one HRU holds water only and has class 17, another has a water majority
\* next to other classes and a class below 17; one water-only HRU is reported
C28_Witness ==
    /\ pc = "land_done"
    /\ cfg.DATA_ACQUIRE = "HPC"
    /\ WaterPositions # {}
    /\ \A i \in WaterPositions :
          /\ OneNonNegativeRow(attributes.hruId[i])
          /\ LandCount(attributes.hruId[i], WaterClass) > 0
    /\ \E k \in DOMAIN attributes.hruId \ WaterPositions :
          /\ OneNonNegativeRow(attributes.hruId[k])
          /\ WaterMajority(attributes.hruId[k])
          /\ OthersPresent(attributes.hruId[k])
    /\ LoggedFor("info", "HRUs were identified as containing only open water", 1)

----------------------------------------------------------------------------
(* SummaRunner.run_summa_parallel and _create_slurm_script.  A configured
   value is <<n>>, the string 'default' is <<>> *)

MaxArrayJobs == 500

\* -(-a // b), b positive
CeilDiv(a, b) == -((-a) \div b)

\* total_grus: the configured count, or the number of unique GRU_ID values of
\* the catchment shapefile
TotalGrus ==
    IF cfg.SETTINGS_SUMMA_GRU_COUNT = <<>>
    THEN Cardinality({catchment[i].gru : i \in DOMAIN catchment})
    ELSE cfg.SETTINGS_SUMMA_GRU_COUNT[1]

\* grus_per_job: the configured value, or the default
GrusPerJob(total_grus) ==
    IF cfg.SETTINGS_SUMMA_GRU_PER_JOB = <<>>
    THEN IF total_grus > MaxArrayJobs THEN CeilDiv(total_grus, MaxArrayJobs) ELSE 1
    ELSE cfg.SETTINGS_SUMMA_GRU_PER_JOB[1]

\* the values _create_slurm_script puts into the script; n_array_jobs is the
\* upper end of #SBATCH --array=0-{n_array_jobs}
SlurmScript(total_grus, grus_per_job) ==
    [total_grus |-> total_grus,
     grus_per_job |-> grus_per_job,
     n_array_jobs |-> CeilDiv(total_grus, grus_per_job) - 1]

\* the array task ids SLURM starts for the script
ArrayTasks(script) == 0..script.n_array_jobs

\* gru_start=$(( (grus_per_job * $SLURM_ARRAY_TASK_ID) + 1 ))
GruStart(script, task) == script.grus_per_job * task + 1

\* gru_end without the comparison with total_grus
GruEndUnclamped(script, task) == GruStart(script, task) + script.grus_per_job - 1

\* gru_end=$(( gru_start + grus_per_job - 1 )), lowered to total_grus
GruEnd(script, task) ==
    LET gru_end == GruStart(script, task) + script.grus_per_job - 1
    IN IF gru_end > script.total_grus THEN script.total_grus ELSE gru_end

\* the method up to the written script; sbatch, the wait and the merge
\* succeed or raise
RunSummaParallel ==
    /\ pc = "run_summa_parallel"
    /\ LET total_grus == TotalGrus
           grus_per_job == GrusPerJob(total_grus)
       IN IF grus_per_job = 0
          THEN /\ ret' = [fn |-> "run_summa_parallel", raised |-> "ZeroDivisionError",
                          script |-> <<>>]
               /\ log' = log \o <<LogEntry("info", "Starting parallel SUMMA run with SLURM", 0)>>
          ELSE \E ok \in BOOLEAN :
                  /\ ret' = [fn |-> "run_summa_parallel",
                             raised |-> IF ok THEN "none" ELSE "Exception",
                             script |-> <<SlurmScript(total_grus, grus_per_job)>>]
                  /\ log' = log \o <<LogEntry("info", "Starting parallel SUMMA run with SLURM", 0)>>
                                \o (IF ok THEN <<>>
                                    ELSE <<LogEntry("error", "Error in parallel SUMMA workflow", 0)>>)
    /\ pc' = "run_summa_parallel_done"
    /\ UNCHANGED <<cfg, basin, intersect, summaInput, ioFailed, globRank, catchment,
                   coldstate, trialparams, attributes, fileList, forcingShp, gisFiles,
                   calls>>

GruCounts == {0, 1, 2, 3, 499, 500, 501, 502, 750, 999, 1001}

InitRunner ==
    /\ pc = "run_summa_parallel"
    /\ cfg \in [SETTINGS_SUMMA_GRU_COUNT : {<<>>} \cup {<<n>> : n \in GruCounts},
                SETTINGS_SUMMA_GRU_PER_JOB : {<<>>, <<0>>, <<1>>, <<2>>, <<7>>}]
    /\ catchment \in Catchments
    /\ grid = NoGrid
    /\ forcingShp = NoFile
    /\ basin = <<>>
    /\ intersect = [exists |-> FALSE, rows |-> <<>>]
    /\ summaInput = <<>>
    /\ ioFailed = {}
    /\ globRank = [f \in Files |-> f]
    /\ coldstate = NoFile
    /\ trialparams = NoFile
    /\ attributes = NoFile
    /\ fileList = NoFile
    /\ soilShp = PipeSoil(Hrus)
    /\ landShp = PipeLand(Hrus)
    /\ demShp = PipeDem(Hrus)
    /\ zonal = NoZonal
    /\ calls = <<>>
    /\ ret = NoRet
    /\ log = <<>>

NextRunner == RunSummaParallel

SpecRunner == InitRunner /\ [][NextRunner]_vars

\* the array tasks of the script whose range holds GRU g
TasksOf(script, g) ==
    {task \in ArrayTasks(script) : GruStart(script, task) <= g /\ g <= GruEnd(script, task)}

\* C29: with the default GRUs per job and total_grus >= 1 the GRU ranges of
\* the array tasks partition 1..total_grus: every GRU index is in the range
\* of exactly one task, no task has an empty range, no range goes beyond
\* total_grus, and there are at most 500 array tasks
C29_RangesPartitionGrus ==
    (/\ pc = "run_summa_parallel_done"
     /\ cfg.SETTINGS_SUMMA_GRU_PER_JOB = <<>>
     /\ ret.script # <<>>
     /\ ret.script[1].total_grus >= 1)
        => LET script == ret.script[1]
           IN /\ \A g \in 1..script.total_grus : Cardinality(TasksOf(script, g)) = 1
              /\ \A task \in ArrayTasks(script) :
                    /\ 1 <= GruStart(script, task)
                    /\ GruStart(script, task) <= GruEnd(script, task)
                    /\ GruEnd(script, task) <= script.total_grus
              /\ Cardinality(ArrayTasks(script)) <= MaxArrayJobs

\* 501 GRUs with the default: two GRUs per job, 251 tasks, the last task has
\* the single GRU 501
C29_Witness ==
    /\ pc = "run_summa_parallel_done"
    /\ cfg.SETTINGS_SUMMA_GRU_PER_JOB = <<>>
    /\ ret.script # <<>>
    /\ ret.script[1].total_grus = 501
    /\ ret.script[1].grus_per_job = 2
    /\ ret.script[1].n_array_jobs = 250
    /\ GruStart(ret.script[1], 250) = 501
    /\ GruEnd(ret.script[1], 250) = 501

====
